---- MODULE Spec2Model ----
(***************************************************************************)
(* Model of the tick-range survival engine and of the price history       *)
(* builder of lp-kaplan-meir (src/backend/survival_km.py and its          *)
(* square-root-price twin src/backend/survival_km_v3.py).                  *)
(*                                                                         *)
(* Timestamps are whole seconds since the epoch.  A duration is kept in    *)
(* seconds; the program's duration_hours is that number divided by 3600,   *)
(* so "duration_hours >= horizon_hours" reads                              *)
(* "duration >= horizon_hours * SecPerHour" here.  A float that the code   *)
(* obtains as a quotient of two integers is kept as the pair <<num, den>>. *)
(***************************************************************************)
EXTENDS Integers, Sequences, FiniteSets, TLC

VARIABLES
    df,             \* the tick series handed to the engine: rows [timestamp, tick]
    W,              \* compute_survival: window half-width argument
    horizon_hours,  \* compute_survival: horizon argument
    durations,      \* compute_survival: list durations (seconds)
    events,         \* compute_survival: list events
    full_followup,  \* compute_survival: list full_followup
    exit_index,     \* compute_survival: index j at which each scan broke (0: no break)
    metrics,        \* compute_survival: the returned dict, or None
    rows,           \* generate_recommendation: list rows
    pc,             \* position of the engine: "start" | "done"
    cache,          \* the cache file of the key (pair, lookback, interval): its rows
    bpc,            \* position of the run in get_price_data:
                    \*   "idle" | "walk" | "returned" | "failed"
    builds,         \* number of runs started so far
    clock,          \* latest block timestamp seen by the last run that read it
    now,            \* get_price_data: now (= latest_ts)
    start_ts,       \* get_price_data: start_ts
    target_ts,      \* get_price_data: target_ts
    cached_df,      \* get_price_data: cached_df, the cached rows loaded for the window
    existing_ts,    \* get_price_data: existing_ts
    records,        \* get_price_data: records
    call_counter,   \* get_price_data: call_counter
    result,         \* get_price_data: the returned series
    rpc_log,        \* the remote work of the run, in order: [op, ts] per call issued
                    \* for grid timestamp ts, and [op |-> "sleep"] per pause
    saved,          \* the series save_cached_prices wrote in this run, in order
    cache_at_start, \* the cache file as the run found it
    last_read,      \* the latest price read of the walk: [ts, reserves], or None
    mpc,            \* position of main: "fetch" | "computed" | "error"
    raw_df,         \* main: raw_df, the series the engine is started on
    max_retries,    \* rpc_call: argument max_retries
    attempt,        \* rpc_call: loop variable attempt (0 before the loop)
    rpc_pc,         \* position of rpc_call: "idle" | "try" | "returned" | "raised"
    responses,      \* what the provider answered to each post of the call, in order
    sleeps,         \* the delays rpc_call slept, in order, in seconds as <<num, den>>
    rpc_result,     \* what rpc_call returned, as [value |-> ...], or None
    raised,         \* the exception that left rpc_call, as [exc |-> ...], or None
    chain,          \* the chain behind the provider: [genesis, spacing], or None
    head,           \* number of the chain's newest block
    block_time,     \* value of BASE_BLOCK_TIME_SEC in effect
    BLOCK_CACHE,    \* get_block: dict BLOCK_CACHE, block number -> block data
    remote_log,     \* the eth_getBlockByNumber queries sent to the provider, in order
    lookup_log,     \* the get_block calls made, in order: [number, blk, remote]
    f_latest_num,   \* latest_num as get_latest_block returned it (-1: not called)
    f_latest_ts,    \* latest_ts as get_latest_block returned it
    f_target,       \* find_block_for_timestamp: argument target_ts
    guess,          \* find_block_for_timestamp: guess
    trail,          \* the rounds of the current search: [guess, diff, next] each
    fpc,            \* position of the resolver:
                    \*   "unset" | "idle" | "loop" | "returned" | "raised"
    found,          \* what find_block_for_timestamp returned, or -1
    finds,          \* number of searches started so far
    program,        \* the script that runs: "survival_km_v3" |
                    \*   "compute_survival_from_prices" ("": none yet)
    ENABLE_D1_INGEST,   \* environment setting, read at import
    WORKER_INGEST_URL,  \* environment setting, read at import
    WORKER_BASE_URL,    \* environment setting, read at import
    ppc,            \* position of main of that script
    report_written, \* the local report (csv and json) is on disk
    pushes,         \* the posts sent to the Worker, in order:
                    \*   [endpoint, outcome, reported]
    warnings,       \* the "Warning: ..." lines printed, by endpoint, in order
    exit_status,    \* exit status of the process (-1 while it runs)
    script,         \* the entry point that runs ("": none yet)
    env,            \* its environment: which settings are set (non-empty)
    cpc,            \* position of its main
    calls,          \* the remote calls it has issued, in order
    cerror,         \* what made the run raise ("": nothing)
    cstatus,        \* exit status of the process (-1 while it runs)
    price_rows,     \* compute_ticks: the rows of its argument df, [timestamp, price]
    tick_rows,      \* compute_ticks: the rows of the frame it returns
    tkpc,           \* position of compute_ticks: "rest" | "start" | "done"
    disk,           \* concurrent runs: the cache file, one unit per row text: [row, by],
                    \*   by the run whose write put the unit there (0: an earlier run)
    rpos,           \* concurrent runs: position of each run in get_price_data:
                    \*   "idle" | "latest" | "merge" | "opened" | "returned" | "failed"
    rnow,           \* concurrent runs: now of each run
    rcached,        \* concurrent runs: cached_df of each run
    rrecords,       \* concurrent runs: records of each run
    rsaved,         \* concurrent runs: the frame each run passes to save_cached_prices
    writes,         \* concurrent runs: the runs whose write reached the file, in order
    v3_cache,       \* survival_km_v3: the rows of the cache file of the key
    v3_pos,         \* survival_km_v3.get_price_data: position of the run:
                    \*   "idle" | "walk" | "returned" | "failed"
    v3_builds,      \* survival_km_v3: number of runs started so far
    v3_invert,      \* survival_km_v3.get_price_data: invert_flag
    v3_last_ts,     \* survival_km_v3.get_price_data: last_ts_sec, [sec |-> n] or None
    v3_now,         \* survival_km_v3.get_price_data: now
    v3_start_ts,    \* survival_km_v3.get_price_data: start_ts
    v3_first_ts,    \* survival_km_v3.get_price_data: target_ts when the loop is entered
    v3_target_ts,   \* survival_km_v3.get_price_data: target_ts
    v3_cached_df,   \* survival_km_v3.get_price_data: cached_df
    v3_records,     \* survival_km_v3.get_price_data: records
    v3_counter,     \* survival_km_v3.get_price_data: call_counter
    v3_result,      \* survival_km_v3.get_price_data: the returned frame
    v3_log,         \* survival_km_v3: the remote work of the run, in order
    v3_cache_at_start \* survival_km_v3: the rows of the cache file as the run found it

engineVars == <<df, W, horizon_hours, durations, events, full_followup,
                exit_index, metrics, rows, pc>>

buildVars == <<cache, bpc, builds, clock, now, start_ts, target_ts, cached_df,
               existing_ts, records, call_counter, result, rpc_log, saved,
               cache_at_start, last_read, mpc, raw_df>>

rpcVars == <<max_retries, attempt, rpc_pc, responses, sleeps, rpc_result, raised>>

resolverVars == <<chain, head, block_time, BLOCK_CACHE, remote_log, lookup_log,
                  f_latest_num, f_latest_ts, f_target, guess, trail, fpc, found,
                  finds>>

pushVars == <<program, ENABLE_D1_INGEST, WORKER_INGEST_URL, WORKER_BASE_URL, ppc,
              report_written, pushes, warnings, exit_status>>

configVars == <<script, env, cpc, calls, cerror, cstatus>>

tickVars == <<price_rows, tick_rows, tkpc>>

raceVars == <<disk, rpos, rnow, rcached, rrecords, rsaved, writes>>

v3Vars == <<v3_cache, v3_pos, v3_builds, v3_invert, v3_last_ts, v3_now, v3_start_ts,
            v3_first_ts, v3_target_ts, v3_cached_df, v3_records, v3_counter, v3_result,
            v3_log, v3_cache_at_start>>

vars == <<engineVars, buildVars, rpcVars, resolverVars, pushVars, configVars, tickVars, raceVars, v3Vars>>

nonEngineVars == <<buildVars, rpcVars, resolverVars, pushVars, configVars, tickVars, raceVars, v3Vars>>
nonBuildVars == <<engineVars, rpcVars, resolverVars, pushVars, configVars, tickVars, raceVars, v3Vars>>
nonRpcVars == <<engineVars, buildVars, resolverVars, pushVars, configVars, tickVars, raceVars, v3Vars>>
nonResolverVars == <<engineVars, buildVars, rpcVars, pushVars, configVars, tickVars, raceVars, v3Vars>>
nonPushVars == <<engineVars, buildVars, rpcVars, resolverVars, configVars, tickVars, raceVars, v3Vars>>
nonConfigVars == <<engineVars, buildVars, rpcVars, resolverVars, pushVars, tickVars, raceVars, v3Vars>>
nonTickVars == <<engineVars, buildVars, rpcVars, resolverVars, pushVars, configVars, raceVars, v3Vars>>
nonRaceVars == <<engineVars, buildVars, rpcVars, resolverVars, pushVars, configVars, tickVars, v3Vars>>
nonV3Vars == <<engineVars, buildVars, rpcVars, resolverVars, pushVars, configVars, tickVars, raceVars>>

----------------------------------------------------------------------------
(* Program constants *)

SecPerHour == 3600
HORIZONS == <<6, 12, 24, 48>>
WINDOWS == <<100, 200, 300, 500>>
MIN_COUNT_TOTAL == 200
MIN_COUNT_FULL == 100
BASE_BLOCK_TIME_SEC == 2

None == [none |-> TRUE]

----------------------------------------------------------------------------
(* Bounds and input domains *)

MaxLen == 3

\* timestamps and ticks of the series compute_survival is exercised on
SurvTimes == {0, 1800, 3600, 5400, 7200}
SurvTicks == {0, 1, 2, 3}
SurvWindows == {1, 2}
SurvHorizons == {1, 2}

\* timestamps and ticks of the series generate_recommendation is exercised on
\* (0 h, 6 h, 12 h, 30 h and 54 h, against HORIZONS and WINDOWS as configured)
RecTimes == {0, 21600, 43200, 108000, 194400}
RecTicks == {-101, 0, 100, 101, 600}

\* A positive price is kept by its logarithm: price = 1.0001 ^ (log_q / LogGrain), so
\* np.log(price) is log_q and math.log(1.0001) is LogGrain, both in units of
\* ln(1.0001) / LogGrain.  A price that is not positive has no logarithm; its sign
\* is all that is kept.
LogGrain == 4

\* metrics on both sides of each gating threshold
GateSpread == 2
GateKm == {<<0, 1>>, <<59, 100>>, <<3, 5>>, <<61, 100>>, <<2, 3>>, <<1, 1>>}

\* configuration of the builder: LOOKBACK_HOURS, SAMPLE_INTERVAL_SEC, RPC_BATCH_SIZE
LOOKBACK_HOURS == 1
SAMPLE_INTERVAL_SEC == 1800
BATCH_SIZE == 2
\* token decimals as resolve_decimals returns them
Decimals == <<7, 6>>

\* runs against the one cache key
MaxBuilds == 2
\* latest block timestamps a run may see
NowVals == {7200, 8100, 9000}
\* what getReserves may decode to at a block: nothing, a pool with one reserve
\* empty (either one), a priced pool
ReserveReads == {None, <<0, 5>>, <<2, 0>>, <<1, 2>>}

Range(s) == {s[i] : i \in 1..Len(s)}

Least(S) == CHOOSE x \in S : \A y \in S : x <= y

\* every chronologically ordered series of at most n rows over the given values
RECURSIVE OrderedSeries(_, _, _)
OrderedSeries(times, ticks, n) ==
    IF n = 0 THEN {<<>>}
    ELSE LET shorter == OrderedSeries(times, ticks, n - 1)
         IN shorter \cup
            UNION { { Append(s, [timestamp |-> t, tick |-> k]) :
                        t \in {x \in times : s = <<>> \/ s[Len(s)].timestamp <= x},
                        k \in ticks } :
                    s \in {x \in shorter : Len(x) = n - 1} }

----------------------------------------------------------------------------
(* compute_survival *)

\* ScanForward with the band taken as open: a tick on the band's edge breaks the scan
RECURSIVE ScanForward_openBand(_, _, _, _, _)
ScanForward_openBand(d, j, limit_time, lower, upper) ==
    IF j > Len(d) \/ d[j].timestamp > limit_time THEN 0
    ELSE IF d[j].tick <= lower \/ d[j].tick >= upper THEN j
    ELSE ScanForward_openBand(d, j + 1, limit_time, lower, upper)

\* the inner while loop: the first j >= from with timestamps[j] <= limit_time whose
\* tick is outside [lower, upper]; 0 when the loop ends without a break
RECURSIVE ScanForward(_, _, _, _, _)
ScanForward(d, j, limit_time, lower, upper) ==
    IF j > Len(d) \/ d[j].timestamp > limit_time THEN 0
    ELSE IF d[j].tick < lower \/ d[j].tick > upper THEN j
    ELSE ScanForward(d, j + 1, limit_time, lower, upper)

horizon_delta(h) == h * SecPerHour

\* sample_at without the administrative censoring at last_time
sample_at_noAdminCensoring(d, w, h, i) ==
    LET t_start    == d[i].timestamp
        limit_time == t_start + horizon_delta(h)
        hit        == ScanForward(d, i + 1, limit_time, d[i].tick - w, d[i].tick + w)
        exit_time  == IF hit # 0 THEN d[hit].timestamp ELSE limit_time
    IN [duration |-> exit_time - t_start,
        event    |-> IF hit # 0 THEN 1 ELSE 0,
        has_full |-> limit_time <= d[Len(d)].timestamp,
        hit      |-> hit]

\* sample_at counting a sample as fully followed up whenever its scan did not break
sample_at_fullUnlessBreach(d, w, h, i) ==
    LET last_time   == d[Len(d)].timestamp
        t_start     == d[i].timestamp
        limit_time  == t_start + horizon_delta(h)
        hit         == ScanForward(d, i + 1, limit_time, d[i].tick - w, d[i].tick + w)
        exit_time   == IF hit # 0 THEN d[hit].timestamp
                       ELSE IF limit_time <= last_time THEN limit_time ELSE last_time
    IN [duration |-> exit_time - t_start,
        event    |-> IF hit # 0 THEN 1 ELSE 0,
        has_full |-> hit = 0,
        hit      |-> hit]

\* one iteration of "for i in range(n)"
sample_at(d, w, h, i) ==
    LET last_time   == d[Len(d)].timestamp
        t_start     == d[i].timestamp
        center_tick == d[i].tick
        lower       == center_tick - w
        upper       == center_tick + w
        limit_time  == t_start + horizon_delta(h)
        has_full    == limit_time <= last_time
        hit         == ScanForward(d, i + 1, limit_time, lower, upper)
        exit_time   == IF hit # 0 THEN d[hit].timestamp
                       ELSE IF has_full THEN limit_time ELSE last_time
    IN [duration |-> exit_time - t_start,
        event    |-> IF hit # 0 THEN 1 ELSE 0,
        has_full |-> has_full,
        hit      |-> hit]

\* KaplanMeierFitter().fit(durations, event_observed=events).predict(h): the product
\* over the distinct observed times t <= h of (1 - d_t / n_t), n_t the samples still
\* at risk at t and d_t the events at t; forward fill makes it the value at h
RECURSIVE km_product(_, _, _)
km_product(times, durs, evs) ==
    IF times = {} THEN <<1, 1>>
    ELSE LET t    == CHOOSE x \in times : TRUE
             rest == km_product(times \ {t}, durs, evs)
             n_t  == Cardinality({i \in 1..Len(durs) : durs[i] >= t})
             d_t  == Cardinality({i \in 1..Len(durs) : durs[i] = t /\ evs[i] = 1})
         IN <<rest[1] * (n_t - d_t), rest[2] * n_t>>

\* the estimate read only at the steps that fall on the queried time, 1 elsewhere
km_predict_noForwardFill(durs, evs, h) ==
    km_product({durs[i] : i \in {k \in 1..Len(durs) : durs[k] = h * SecPerHour}},
               durs, evs)

km_predict(durs, evs, h) ==
    km_product({durs[i] : i \in {k \in 1..Len(durs) : durs[k] <= h * SecPerHour}},
               durs, evs)

\* survivors_full_of without the test events_arr == 0
survivors_full_of_anyEvent(durs, evs, follow, h) ==
    Cardinality({i \in 1..Len(durs) : durs[i] >= h * SecPerHour /\ follow[i]})

survivors_full_of(durs, evs, follow, h) ==
    Cardinality({i \in 1..Len(durs) :
                    evs[i] = 0 /\ durs[i] >= h * SecPerHour /\ follow[i]})

empirical_full_of(survivors_full, count_full) ==
    IF count_full # 0
    THEN [nan |-> FALSE, num |-> survivors_full, den |-> count_full]
    ELSE [nan |-> TRUE, num |-> 0, den |-> 1]

samples_of(d, w, h) == [i \in 1..Len(d) |-> sample_at(d, w, h, i)]

\* the ticks of the series in ascending order, as np.median arranges them
RECURSIVE insert_sorted(_, _)
insert_sorted(sorted, x) ==
    IF sorted = <<>> THEN <<x>>
    ELSE IF x <= Head(sorted) THEN <<x>> \o sorted
    ELSE <<Head(sorted)>> \o insert_sorted(Tail(sorted), x)

RECURSIVE sorted_ticks(_)
sorted_ticks(d) ==
    IF d = <<>> THEN <<>>
    ELSE insert_sorted(sorted_ticks(Tail(d)), Head(d).tick)

\* np.median(ticks) as the pair <<num, den>>: the middle tick of an odd number of
\* ticks, the mean of the two middle ticks of an even number
median_ticks(d) ==
    LET srt == sorted_ticks(d)
        n   == Len(srt)
    IN IF n % 2 = 1 THEN <<srt[(n + 1) \div 2], 1>>
       ELSE <<srt[n \div 2] + srt[n \div 2 + 1], 2>>

\* the quotient rounded toward minus infinity
int_of_floored(q) == q[1] \div q[2]

\* int(x) of a float x = q[1] / q[2], q[2] > 0: the quotient rounded toward zero
int_of(q) == IF q[1] >= 0 THEN q[1] \div q[2] ELSE -((-q[1]) \div q[2])

\* np.power(1.0001, t), kept by its logarithm as the prices of compute_ticks are
power_1_0001(t) == [sign |-> 1, log_q |-> LogGrain * t]

Sgn(x) == IF x > 0 THEN 1 ELSE IF x < 0 THEN -1 ELSE 0

\* the sign of p - q for two positive prices
sign_of_difference(p, q) == Sgn(p.log_q - q.log_q)

\* the price band entries of the returned dict; percent_range_total is kept by its
\* sign, that of price_to - price_from since price_center and 100 are positive
price_band(d, w) ==
    LET center_tick == int_of(median_ticks(d))
        tick_from   == center_tick - w
        tick_to     == center_tick + w
        price_from  == power_1_0001(tick_from)
        price_to    == power_1_0001(tick_to)
    IN [tick_from           |-> tick_from,
        tick_to             |-> tick_to,
        price_from          |-> price_from,
        price_to            |-> price_to,
        percent_range_total |-> sign_of_difference(price_to, price_from)]

\* the returned dict, without its confidence interval (km_ci_low, km_ci_high)

\* compute_survival counting as fully followed up only the samples without an event
compute_survival_fullWithoutEvent(d, w, h) ==
    IF d = <<>> THEN None
    ELSE LET s          == samples_of(d, w, h)
             durs       == [i \in 1..Len(d) |-> s[i].duration]
             evs        == [i \in 1..Len(d) |-> s[i].event]
             follow     == [i \in 1..Len(d) |-> s[i].has_full]
             count_full == Cardinality({i \in 1..Len(d) : follow[i] /\ evs[i] = 0})
         IN [W                   |-> w,
             horizon_hours       |-> h,
             count_total         |-> Len(durs),
             count_full_followup |-> count_full,
             empirical_full      |->
                 empirical_full_of(survivors_full_of(durs, evs, follow, h), count_full),
             km_surv             |-> km_predict(durs, evs, h)] @@ price_band(d, w)

compute_survival(d, w, h) ==
    IF d = <<>> THEN None
    ELSE LET s          == samples_of(d, w, h)
             durs       == [i \in 1..Len(d) |-> s[i].duration]
             evs        == [i \in 1..Len(d) |-> s[i].event]
             follow     == [i \in 1..Len(d) |-> s[i].has_full]
             count_full == Cardinality({i \in 1..Len(d) : follow[i]})
         IN [W                   |-> w,
             horizon_hours       |-> h,
             count_total         |-> Len(durs),
             count_full_followup |-> count_full,
             empirical_full      |->
                 empirical_full_of(survivors_full_of(durs, evs, follow, h), count_full),
             km_surv             |-> km_predict(durs, evs, h)] @@ price_band(d, w)

\* compute_ticks not called
\* the square-root-price builder not started
V3AtRest ==
    /\ v3_cache = <<>>
    /\ v3_pos = "idle"
    /\ v3_builds = 0
    /\ v3_invert = FALSE
    /\ v3_last_ts = None
    /\ v3_now = 0
    /\ v3_start_ts = 0
    /\ v3_first_ts = 0
    /\ v3_target_ts = 0
    /\ v3_cached_df = <<>>
    /\ v3_records = <<>>
    /\ v3_counter = 0
    /\ v3_result = <<>>
    /\ v3_log = <<>>
    /\ v3_cache_at_start = <<>>

\* no concurrent runs
RaceAtRest ==
    /\ disk = <<>>
    /\ rpos = <<>>
    /\ rnow = <<>>
    /\ rcached = <<>>
    /\ rrecords = <<>>
    /\ rsaved = <<>>
    /\ writes = <<>>

TickAtRest ==
    /\ price_rows = <<>>
    /\ tick_rows = <<>>
    /\ tkpc = "rest"

\* the builder at rest, for the specifications of the engine alone
ConfigAtRest ==
    /\ script = ""
    /\ env = None
    /\ cpc = "unstarted"
    /\ calls = <<>>
    /\ cerror = ""
    /\ cstatus = -1

PushAtRest ==
    /\ program = ""
    /\ ENABLE_D1_INGEST = FALSE
    /\ WORKER_INGEST_URL = ""
    /\ WORKER_BASE_URL = ""
    /\ ppc = "unstarted"
    /\ report_written = FALSE
    /\ pushes = <<>>
    /\ warnings = <<>>
    /\ exit_status = -1

ResolverAtRest ==
    /\ chain = None
    /\ head = 0
    /\ block_time = 0
    /\ BLOCK_CACHE = <<>>
    /\ remote_log = <<>>
    /\ lookup_log = <<>>
    /\ f_latest_num = -1
    /\ f_latest_ts = 0
    /\ f_target = 0
    /\ guess = 0
    /\ trail = <<>>
    /\ fpc = "unset"
    /\ found = -1
    /\ finds = 0

RpcAtRest ==
    /\ max_retries = 0
    /\ attempt = 0
    /\ rpc_pc = "idle"
    /\ responses = <<>>
    /\ sleeps = <<>>
    /\ rpc_result = None
    /\ raised = None

BuildAtRest ==
    /\ cache = <<>>
    /\ bpc = "idle"
    /\ builds = 0
    /\ clock = 0
    /\ now = 0
    /\ start_ts = 0
    /\ target_ts = 0
    /\ cached_df = <<>>
    /\ existing_ts = {}
    /\ records = <<>>
    /\ call_counter = 0
    /\ result = <<>>
    /\ rpc_log = <<>>
    /\ saved = <<>>
    /\ cache_at_start = <<>>
    /\ last_read = None
    /\ mpc = "fetch"
    /\ raw_df = <<>>

ComputeSurvival ==
    /\ pc = "start"
    /\ metrics' = compute_survival(df, W, horizon_hours)
    /\ LET s == samples_of(df, W, horizon_hours)
       IN /\ durations'     = [i \in 1..Len(df) |-> s[i].duration]
          /\ events'        = [i \in 1..Len(df) |-> s[i].event]
          /\ full_followup' = [i \in 1..Len(df) |-> s[i].has_full]
          /\ exit_index'    = [i \in 1..Len(df) |-> s[i].hit]
    /\ pc' = "done"
    /\ UNCHANGED <<df, W, horizon_hours, rows>>
    /\ UNCHANGED nonEngineVars

InitSurvival ==
    /\ BuildAtRest
    /\ RpcAtRest
    /\ ResolverAtRest
    /\ PushAtRest
    /\ ConfigAtRest
    /\ TickAtRest
    /\ RaceAtRest
    /\ V3AtRest
    /\ df \in OrderedSeries(SurvTimes, SurvTicks, MaxLen)
    /\ W \in SurvWindows
    /\ horizon_hours \in SurvHorizons
    /\ durations = <<>>
    /\ events = <<>>
    /\ full_followup = <<>>
    /\ exit_index = <<>>
    /\ metrics = None
    /\ rows = <<>>
    /\ pc = "start"

NextSurvival == ComputeSurvival

SpecSurvival == InitSurvival /\ [][NextSurvival]_vars

----------------------------------------------------------------------------
(* generate_recommendation *)

\* km_surv >= 0.6 on the quotient km = <<num, den>>, den > 0
km_at_least_threshold(km) == 10 * km[1] >= 6 * km[2]

\* accepted_of with the total-count bound taken as exclusive
accepted_of_strictTotal(m) ==
    /\ km_at_least_threshold(m.km_surv)
    /\ m.count_total > MIN_COUNT_TOTAL
    /\ m.count_full_followup >= MIN_COUNT_FULL

accepted_of(m) ==
    /\ km_at_least_threshold(m.km_surv)
    /\ m.count_total >= MIN_COUNT_TOTAL
    /\ m.count_full_followup >= MIN_COUNT_FULL

\* reasons_of whose total-count fragment tests the full-followup count
reasons_of_wrongMetric(m) ==
    << IF km_at_least_threshold(m.km_surv) THEN "km_surv >= 0.6" ELSE "km_surv < 0.6",
       IF m.count_full_followup >= MIN_COUNT_FULL
           THEN "count_total >= 200" ELSE "count_total < 200",
       IF m.count_full_followup >= MIN_COUNT_FULL
           THEN "count_full >= 100" ELSE "count_full < 100" >>

reasons_of(m) ==
    << IF km_at_least_threshold(m.km_surv) THEN "km_surv >= 0.6" ELSE "km_surv < 0.6",
       IF m.count_total >= MIN_COUNT_TOTAL
           THEN "count_total >= 200" ELSE "count_total < 200",
       IF m.count_full_followup >= MIN_COUNT_FULL
           THEN "count_full >= 100" ELSE "count_full < 100" >>

\* " & ".join(reasons)
join_reasons(r) == r[1] \o " & " \o r[2] \o " & " \o r[3]

recommendation_row(m) ==
    [status |-> IF accepted_of(m) THEN "ACCEPTED" ELSE "REJECTED",
     reason |-> join_reasons(reasons_of(m))] @@ m

\* cell_rows reporting a cell without metrics as REJECTED instead of skipping it
cell_rows_rejectEmpty(d, h, w) ==
    LET m == compute_survival(d, w, h)
    IN IF m = None
       THEN << [W |-> w, horizon_hours |-> h, status |-> "REJECTED", reason |-> "no data"] >>
       ELSE <<recommendation_row(m)>>

\* the body of the inner loop for one (horizon, window): no row when compute_survival
\* returns None
cell_rows(d, h, w) ==
    LET m == compute_survival(d, w, h)
    IN IF m = None THEN <<>> ELSE <<recommendation_row(m)>>

RECURSIVE window_loop(_, _, _)
window_loop(d, h, k) ==
    IF k > Len(WINDOWS) THEN <<>>
    ELSE cell_rows(d, h, WINDOWS[k]) \o window_loop(d, h, k + 1)

RECURSIVE horizon_loop(_, _)
horizon_loop(d, k) ==
    IF k > Len(HORIZONS) THEN <<>>
    ELSE window_loop(d, HORIZONS[k], 1) \o horizon_loop(d, k + 1)

\* generate_recommendation with the two loops nested the other way round
RECURSIVE horizon_loop_inner(_, _, _)
horizon_loop_inner(d, w, k) ==
    IF k > Len(HORIZONS) THEN <<>>
    ELSE cell_rows(d, HORIZONS[k], w) \o horizon_loop_inner(d, w, k + 1)

RECURSIVE window_loop_outer(_, _)
window_loop_outer(d, k) ==
    IF k > Len(WINDOWS) THEN <<>>
    ELSE horizon_loop_inner(d, WINDOWS[k], 1) \o window_loop_outer(d, k + 1)

generate_recommendation_windowMajor(d) == window_loop_outer(d, 1)

generate_recommendation(d) == horizon_loop(d, 1)

GenerateRecommendation ==
    /\ pc = "start"
    /\ rows' = generate_recommendation(df)
    /\ pc' = "done"
    /\ UNCHANGED <<df, W, horizon_hours, durations, events, full_followup,
                   exit_index, metrics>>
    /\ UNCHANGED nonEngineVars

InitRecommend ==
    /\ BuildAtRest
    /\ RpcAtRest
    /\ ResolverAtRest
    /\ PushAtRest
    /\ ConfigAtRest
    /\ TickAtRest
    /\ RaceAtRest
    /\ V3AtRest
    /\ df \in OrderedSeries(RecTimes, RecTicks, MaxLen)
    /\ W = 0
    /\ horizon_hours = 0
    /\ durations = <<>>
    /\ events = <<>>
    /\ full_followup = <<>>
    /\ exit_index = <<>>
    /\ metrics = None
    /\ rows = <<>>
    /\ pc = "start"

NextRecommend == GenerateRecommendation

SpecRecommend == InitRecommend /\ [][NextRecommend]_vars

\* the gating of one cell (the statements after "if not metrics: continue") applied
\* to metrics around the thresholds
GateMetrics ==
    [W                   : {WINDOWS[1]},
     horizon_hours       : {HORIZONS[1]},
     count_total         : (MIN_COUNT_TOTAL - GateSpread)..(MIN_COUNT_TOTAL + GateSpread),
     count_full_followup : (MIN_COUNT_FULL - GateSpread)..(MIN_COUNT_FULL + GateSpread),
     empirical_full      : {[nan |-> FALSE, num |-> 1, den |-> 2]},
     km_surv             : GateKm]

GateCell ==
    /\ pc = "start"
    /\ rows' = Append(rows, recommendation_row(metrics))
    /\ pc' = "done"
    /\ UNCHANGED <<df, W, horizon_hours, durations, events, full_followup,
                   exit_index, metrics>>
    /\ UNCHANGED nonEngineVars

InitGating ==
    /\ BuildAtRest
    /\ RpcAtRest
    /\ ResolverAtRest
    /\ PushAtRest
    /\ ConfigAtRest
    /\ TickAtRest
    /\ RaceAtRest
    /\ V3AtRest
    /\ df = <<>>
    /\ metrics \in GateMetrics
    /\ W = metrics.W
    /\ horizon_hours = metrics.horizon_hours
    /\ durations = <<>>
    /\ events = <<>>
    /\ full_followup = <<>>
    /\ exit_index = <<>>
    /\ rows = <<>>
    /\ pc = "start"

NextGating == GateCell

SpecGating == InitGating /\ [][NextGating]_vars

----------------------------------------------------------------------------
(* get_price_data *)

\* sort_values_timestamp leaving the rows in their order of arrival
sort_values_timestamp_unsorted(s) == s

\* df.sort_values("timestamp") of a list of rows: ascending timestamps, rows of one
\* timestamp in their order of arrival
RECURSIVE sort_values_timestamp(_)
sort_values_timestamp(s) ==
    IF s = <<>> THEN <<>>
    ELSE LET m == Least({s[i].timestamp : i \in 1..Len(s)})
             k == Least({i \in 1..Len(s) : s[i].timestamp = m})
         IN <<s[k]>> \o
            sort_values_timestamp(SubSeq(s, 1, k - 1) \o SubSeq(s, k + 1, Len(s)))

\* load_cached_prices: the rows of the file inside [start, end], sorted; no file and an
\* unreadable file both give the empty frame
load_cached_prices(file, start, end) ==
    sort_values_timestamp(
        SelectSeq(file, LAMBDA r : r.timestamp >= start /\ r.timestamp <= end))

\* existing_ts_of never seeded from the cached frame
existing_ts_of_unseeded(cached) == {}

\* existing_ts = {int(ts.timestamp()) for ts in cached_df["timestamp"]}
existing_ts_of(cached) == {cached[i].timestamp : i \in 1..Len(cached)}

\* price = (r1 / r0) * 10 ** (dec0 - dec1), for dec0 >= dec1
RECURSIVE pow10(_)
pow10(n) == IF n = 0 THEN 1 ELSE 10 * pow10(n - 1)

price_of(r0, r1) == <<r1 * pow10(Decimals[1] - Decimals[2]), r0>>

records_for_anyReserves(ts, blk_num, reserves) ==
    IF reserves # None
    THEN << [timestamp |-> ts, price |-> price_of(reserves[1], reserves[2]),
             block |-> blk_num] >>
    ELSE <<>>

\* the rows appended for one grid point: one row when the reserves were read and both
\* are positive, none otherwise
records_for(ts, blk_num, reserves) ==
    IF reserves # None /\ reserves[1] > 0 /\ reserves[2] > 0
    THEN << [timestamp |-> ts, price |-> price_of(reserves[1], reserves[2]),
             block |-> blk_num] >>
    ELSE <<>>

\* cached rows followed by the new records, rows with a missing field dropped, sorted
merge_prices(cached, recs) == sort_values_timestamp(cached \o recs)

\* the blocks find_block_for_timestamp may settle on for a target: the search is
\* approximate, so the block of the target's second or its neighbour
BlocksNear(ts) == {ts \div BASE_BLOCK_TIME_SEC, ts \div BASE_BLOCK_TIME_SEC + 1}

\* what one call of find_block_for_timestamp may come to: the block it returns and the
\* number of remote block lookups it took (one per round, a first guess inside the
\* tolerance taking one)
Resolutions(ts) ==
    {[blk_num |-> b, lookups |-> IF b = ts \div BASE_BLOCK_TIME_SEC THEN 1 ELSE 2] :
        b \in BlocksNear(ts)}

RECURSIVE Repeat(_, _)
Repeat(x, n) == IF n = 0 THEN <<>> ELSE <<x>> \o Repeat(x, n - 1)

pause_due_longerBatch(counter) == BATCH_SIZE > 0 /\ counter % (BATCH_SIZE + 1) = 0

\* "if BATCH_SIZE > 0 and call_counter % BATCH_SIZE == 0", after the increment
pause_due(counter) == BATCH_SIZE > 0 /\ counter % BATCH_SIZE = 0

\* get_price_data up to the while loop: the first load against the local clock, the
\* early return of the cached frame when use_cache is set, then get_latest_block, the
\* load for the window and the seeding of existing_ts
BeginBuild ==
    /\ bpc = "idle"
    /\ builds < MaxBuilds
    /\ \E use_cache_flag \in BOOLEAN, approx_now \in NowVals, latest_ts \in NowVals :
          LET first == load_cached_prices(cache,
                           approx_now - LOOKBACK_HOURS * SecPerHour, approx_now)
              start == latest_ts - LOOKBACK_HOURS * SecPerHour
              loaded == load_cached_prices(cache, start, latest_ts)
          IN /\ latest_ts >= clock
             /\ IF use_cache_flag /\ first # <<>>
                THEN /\ result' = first
                     /\ cached_df' = first
                     /\ bpc' = "returned"
                     /\ now' = 0
                     /\ start_ts' = 0
                     /\ target_ts' = 0
                     /\ existing_ts' = {}
                     /\ UNCHANGED clock
                ELSE /\ now' = latest_ts
                     /\ clock' = latest_ts
                     /\ start_ts' = start
                     /\ cached_df' = loaded
                     /\ target_ts' = start
                     /\ existing_ts' = existing_ts_of(loaded)
                     /\ result' = <<>>
                     /\ bpc' = "walk"
    /\ builds' = builds + 1
    /\ records' = <<>>
    /\ call_counter' = 0
    /\ rpc_log' = <<>>
    /\ saved' = <<>>
    /\ cache_at_start' = cache
    /\ last_read' = None
    /\ UNCHANGED <<cache, mpc, raw_df>>
    /\ UNCHANGED nonBuildVars

\* a remote call made before the loop (resolve_decimals, get_latest_block) raises out
\* of rpc_call: the run ends with the error
BeginRaises ==
    /\ bpc = "idle"
    /\ builds < MaxBuilds
    /\ bpc' = "failed"
    /\ builds' = builds + 1
    /\ now' = 0
    /\ start_ts' = 0
    /\ target_ts' = 0
    /\ cached_df' = <<>>
    /\ existing_ts' = {}
    /\ records' = <<>>
    /\ call_counter' = 0
    /\ result' = <<>>
    /\ rpc_log' = << [op |-> "setup_raised"] >>
    /\ saved' = <<>>
    /\ cache_at_start' = cache
    /\ last_read' = None
    /\ UNCHANGED <<cache, clock, mpc, raw_df>>
    /\ UNCHANGED nonBuildVars

\* one turn of "while target_ts <= now" on a grid point found in existing_ts
SkipCached ==
    /\ bpc = "walk"
    /\ target_ts <= now
    /\ target_ts \in existing_ts
    /\ target_ts' = target_ts + SAMPLE_INTERVAL_SEC
    /\ UNCHANGED <<cache, bpc, builds, clock, now, start_ts, cached_df, existing_ts,
                   records, call_counter, result, rpc_log, saved, cache_at_start, last_read,
                   mpc, raw_df>>
    /\ UNCHANGED nonBuildVars

\* one turn of the loop on a grid point not in existing_ts: the block is resolved, the
\* reserves are read, a record is appended when they are valid, the counter advances
\* and the run pauses when the counter reaches a multiple of BATCH_SIZE
FetchPoint ==
    /\ bpc = "walk"
    /\ target_ts <= now
    /\ target_ts \notin existing_ts
    /\ \E res \in Resolutions(target_ts), reserves \in ReserveReads :
          /\ records' = records \o records_for(target_ts, res.blk_num, reserves)
          /\ call_counter' = call_counter + 1
          /\ rpc_log' = rpc_log
                \o << [op |-> "find_block", ts |-> target_ts] >>
                \o Repeat([op |-> "get_block", ts |-> target_ts], res.lookups)
                \o << [op |-> "get_reserves", ts |-> target_ts] >>
                \o (IF pause_due(call_counter + 1) THEN << [op |-> "sleep"] >> ELSE <<>>)
          /\ last_read' = [ts |-> target_ts, reserves |-> reserves]
    /\ target_ts' = target_ts + SAMPLE_INTERVAL_SEC
    /\ UNCHANGED <<cache, bpc, builds, clock, now, start_ts, cached_df, existing_ts,
                   result, saved, cache_at_start, mpc, raw_df>>
    /\ UNCHANGED nonBuildVars

FetchRaises_skips ==
    /\ bpc = "walk"
    /\ target_ts <= now
    /\ target_ts \notin existing_ts
    /\ rpc_log' = rpc_log
            \o << [op |-> "find_block", ts |-> target_ts],
                  [op |-> "get_block", ts |-> target_ts],
                  [op |-> "raised", ts |-> target_ts] >>
    /\ target_ts' = target_ts + SAMPLE_INTERVAL_SEC
    /\ UNCHANGED <<cache, bpc, builds, clock, now, start_ts, cached_df, existing_ts,
                   records, call_counter, result, saved, cache_at_start, last_read, mpc, raw_df>>
    /\ UNCHANGED nonBuildVars

\* a remote call of the turn raises out of rpc_call, in the block lookup or in the
\* price read: nothing in find_block_for_timestamp, call_get_reserves or
\* get_price_data catches it, the run ends with the error
FetchRaises ==
    /\ bpc = "walk"
    /\ target_ts <= now
    /\ target_ts \notin existing_ts
    /\ \E stage \in {"get_block", "get_reserves"} :
          rpc_log' = rpc_log
                \o << [op |-> "find_block", ts |-> target_ts],
                      [op |-> "get_block", ts |-> target_ts] >>
                \o (IF stage = "get_reserves"
                    THEN << [op |-> "get_reserves", ts |-> target_ts] >> ELSE <<>>)
                \o << [op |-> "raised", ts |-> target_ts] >>
    /\ bpc' = "failed"
    /\ UNCHANGED <<cache, builds, clock, now, start_ts, target_ts, cached_df,
                   existing_ts, records, call_counter, result, saved, cache_at_start, last_read,
                   mpc, raw_df>>
    /\ UNCHANGED nonBuildVars

df_empty_never(frame) == FALSE

\* DataFrame.empty
df_empty(frame) == frame = <<>>

FinishBuild_saveBeforeCheck ==
    /\ bpc = "walk"
    /\ target_ts > now
    /\ LET merged == merge_prices(cached_df, records)
       IN /\ cache' = merged
          /\ saved' = Append(saved, merged)
          /\ IF df_empty(merged)
             THEN /\ bpc' = "failed"
                  /\ UNCHANGED result
             ELSE /\ result' = merged
                  /\ bpc' = "returned"
    /\ UNCHANGED <<builds, clock, now, start_ts, target_ts, cached_df, existing_ts,
                   records, call_counter, rpc_log, cache_at_start, last_read, mpc, raw_df>>
    /\ UNCHANGED nonBuildVars

\* after the loop: merge, sort, raise on an empty frame, else save and return
FinishBuild ==
    /\ bpc = "walk"
    /\ target_ts > now
    /\ LET merged == merge_prices(cached_df, records)
       IN IF df_empty(merged)
          THEN /\ bpc' = "failed"
               /\ UNCHANGED <<cache, result, saved>>
          ELSE /\ cache' = merged
               /\ saved' = Append(saved, merged)
               /\ result' = merged
               /\ bpc' = "returned"
    /\ UNCHANGED <<builds, clock, now, start_ts, target_ts, cached_df, existing_ts,
                   records, call_counter, rpc_log, cache_at_start, last_read, mpc, raw_df>>
    /\ UNCHANGED nonBuildVars

\* main after get_price_data returned: compute_ticks and generate_recommendation are
\* started on the returned series
MainCompute ==
    /\ bpc = "returned"
    /\ mpc = "fetch"
    /\ raw_df' = result
    /\ mpc' = "computed"
    /\ UNCHANGED <<cache, bpc, builds, clock, now, start_ts, target_ts, cached_df,
                   existing_ts, records, call_counter, result, rpc_log, saved,
                   cache_at_start, last_read>>
    /\ UNCHANGED nonBuildVars

\* main when get_price_data raised: the error leaves main, nothing is computed
MainAborts ==
    /\ bpc = "failed"
    /\ mpc = "fetch"
    /\ mpc' = "error"
    /\ UNCHANGED <<cache, bpc, builds, clock, now, start_ts, target_ts, cached_df,
                   existing_ts, records, call_counter, result, rpc_log, saved,
                   cache_at_start, last_read, raw_df>>
    /\ UNCHANGED nonBuildVars

\* the process has ended and with it everything but the cache file; the next run
\* starts from the file it finds
NextRun ==
    /\ mpc \in {"computed", "error"}
    /\ builds < MaxBuilds
    /\ bpc' = "idle"
    /\ mpc' = "fetch"
    /\ raw_df' = <<>>
    /\ now' = 0
    /\ start_ts' = 0
    /\ target_ts' = 0
    /\ cached_df' = <<>>
    /\ existing_ts' = {}
    /\ records' = <<>>
    /\ call_counter' = 0
    /\ result' = <<>>
    /\ rpc_log' = <<>>
    /\ saved' = <<>>
    /\ cache_at_start' = cache
    /\ last_read' = None
    /\ UNCHANGED <<cache, builds, clock>>
    /\ UNCHANGED nonBuildVars

\* the engine at rest, for the specifications of the other components
EngineAtRest ==
    /\ df = <<>>
    /\ W = 0
    /\ horizon_hours = 0
    /\ durations = <<>>
    /\ events = <<>>
    /\ full_followup = <<>>
    /\ exit_index = <<>>
    /\ metrics = None
    /\ rows = <<>>
    /\ pc = "start"

InitBuild ==
    /\ BuildAtRest
    /\ RpcAtRest
    /\ ResolverAtRest
    /\ PushAtRest
    /\ ConfigAtRest
    /\ TickAtRest
    /\ RaceAtRest
    /\ V3AtRest
    /\ EngineAtRest

NextBuild ==
    \/ BeginBuild
    \/ BeginRaises
    \/ SkipCached
    \/ FetchPoint
    \/ FetchRaises
    \/ FinishBuild
    \/ MainCompute
    \/ MainAborts
    \/ NextRun

SpecBuild == InitBuild /\ [][NextBuild]_vars

----------------------------------------------------------------------------
(* rpc_call *)

\* "max_retries: int = 5"
DEFAULT_MAX_RETRIES == 5

\* the values of max_retries a call is made with
RetryLimits == {0, 1, 2, DEFAULT_MAX_RETRIES}

\* what one post can come to: a body with a result, an HTTP error status
\* (raise_for_status), a connection error or timeout, a JSON-RPC error body, a body
\* without a result
RpcResults == {"0x5", "0x"}

Responses ==
    {[kind |-> "ok", result |-> r] : r \in RpcResults}
        \cup {[kind |-> "http_error", status |-> st] : st \in {429, 500}}
        \cup {[kind |-> k] : k \in {"connection_error", "rpc_error", "bad_body"}}

RECURSIVE pow(_, _)
pow(b, e) == IF e = 0 THEN 1 ELSE b * pow(b, e - 1)

\* "1.5 ** (attempt - 1)"
backoff(a) == <<pow(3, a - 1), pow(2, a - 1)>>

status_retried_any(status) == TRUE

\* "status == 429"
status_retried(status) == status = 429

attempts_exhausted_offByOne(a, limit) == a > limit

\* "attempt >= max_retries"; its negation is "attempt < max_retries"
attempts_exhausted(a, limit) == a >= limit

\* the call is made; "range(1, max_retries + 1)" is empty when max_retries < 1 and the
\* function goes straight to its final raise
RpcCall ==
    /\ rpc_pc = "idle"
    /\ \E limit \in RetryLimits :
          /\ max_retries' = limit
          /\ IF limit >= 1
             THEN /\ attempt' = 1
                  /\ rpc_pc' = "try"
                  /\ raised' = None
             ELSE /\ attempt' = 0
                  /\ rpc_pc' = "raised"
                  /\ raised' = [exc |-> "RuntimeError"]
    /\ responses' = <<>>
    /\ sleeps' = <<>>
    /\ rpc_result' = None
    /\ UNCHANGED nonRpcVars

\* one turn of the for loop: the post, and the handler of what came back
RpcAttempt ==
    /\ rpc_pc = "try"
    /\ \E resp \in Responses :
          /\ responses' = Append(responses, resp)
          /\ IF resp.kind = "ok"
             THEN /\ rpc_result' = [value |-> resp.result]
                  /\ rpc_pc' = "returned"
                  /\ UNCHANGED <<attempt, sleeps, raised>>
             ELSE IF resp.kind = "http_error"
             THEN IF status_retried(resp.status)
                     /\ ~attempts_exhausted(attempt, max_retries)
                  THEN /\ sleeps' = Append(sleeps, backoff(attempt))
                       /\ attempt' = attempt + 1
                       /\ UNCHANGED <<rpc_pc, rpc_result, raised>>
                  ELSE /\ raised' = [exc |-> "HTTPError"]
                       /\ rpc_pc' = "raised"
                       /\ UNCHANGED <<attempt, sleeps, rpc_result>>
             ELSE IF attempts_exhausted(attempt, max_retries)
                  THEN /\ raised' = [exc |-> "RuntimeError"]
                       /\ rpc_pc' = "raised"
                       /\ UNCHANGED <<attempt, sleeps, rpc_result>>
                  ELSE /\ sleeps' = Append(sleeps, backoff(attempt))
                       /\ attempt' = attempt + 1
                       /\ UNCHANGED <<rpc_pc, rpc_result, raised>>
    /\ UNCHANGED max_retries
    /\ UNCHANGED nonRpcVars

InitRpc ==
    /\ RpcAtRest
    /\ ResolverAtRest
    /\ PushAtRest
    /\ ConfigAtRest
    /\ TickAtRest
    /\ RaceAtRest
    /\ V3AtRest
    /\ BuildAtRest
    /\ EngineAtRest

NextRpc ==
    \/ RpcCall
    \/ RpcAttempt

SpecRpc == InitRpc /\ [][NextRpc]_vars

----------------------------------------------------------------------------
(* get_block, get_latest_block, find_block_for_timestamp *)

\* "for _ in range(10)"
ROUNDS == 10

\* "if abs(diff) <= 30"
TOLERANCE == 30

\* the chains a run may face: timestamp of block 0 and seconds between blocks
Chains ==
    {[genesis |-> 1000, spacing |-> sp] : sp \in {1, BASE_BLOCK_TIME_SEC, 4, 6, 35}}

\* values of BASE_BLOCK_TIME_SEC (an environment setting, default 2)
BlockTimes == {BASE_BLOCK_TIME_SEC, 40}

\* the chain's newest block when the run connects, and how far it may grow meanwhile
HeadStart == 50
MaxGrowth == 1

\* searches per run, calls of get_latest_block per run, targets searched for
MaxFinds == 2
MaxLatest == 2
FindTargets == {900, 1035, 1100, 1190}

BlockTs(b) == chain.genesis + b * chain.spacing

\* the provider's answer to eth_getBlockByNumber: null for a number past the head
BlockData(b) == IF b <= head THEN [number |-> b, timestamp |-> BlockTs(b)] ELSE None

Abs(x) == IF x < 0 THEN -x ELSE x

Max(a, b) == IF a >= b THEN a ELSE b

\* int(a / b) for b > 0: the quotient cut toward zero
int_div(a, b) == IF a >= 0 THEN a \div b ELSE -((-a) \div b)

Latest == [tag |-> "latest"]

Number(b) == [tag |-> "number", n |-> b]

cache_hit_never(number) == FALSE

\* "number != 'latest' ... num_int in BLOCK_CACHE"
cache_hit(number) == number.tag = "number" /\ number.n \in DOMAIN BLOCK_CACHE

\* BLOCK_CACHE after a remote answer blk to the query number
cache_after(number, blk) ==
    IF number.tag = "number" THEN (number.n :> blk) @@ BLOCK_CACHE ELSE BLOCK_CACHE

force_step_none(adjust, diff) == adjust

\* "if adjust == 0: adjust = 1 if diff > 0 else -1"
force_step(adjust, diff) ==
    IF adjust = 0 THEN (IF diff > 0 THEN 1 ELSE -1) ELSE adjust

range_exhausted_late(rounds_done) == rounds_done = ROUNDS + 1

\* "for _ in range(10)" has no round left
range_exhausted(rounds_done) == rounds_done = ROUNDS

\* "guess = max(0, guess - adjust)" after "adjust = int(diff / BASE_BLOCK_TIME_SEC)"
next_guess(g, diff) == Max(0, g - force_step(int_div(diff, block_time), diff))

\* "guess = max(0, int(latest_num - (latest_ts - target_ts) / BASE_BLOCK_TIME_SEC))"
first_guess(target) ==
    Max(0, int_div(f_latest_num * block_time - (f_latest_ts - target), block_time))

\* the run starts against some chain with some configured block time
Connect ==
    /\ fpc = "unset"
    /\ \E c \in Chains, bt \in BlockTimes :
          /\ chain' = c
          /\ block_time' = bt
    /\ head' = HeadStart
    /\ fpc' = "idle"
    /\ UNCHANGED <<BLOCK_CACHE, remote_log, lookup_log, f_latest_num, f_latest_ts,
                   f_target, guess, trail, found, finds>>
    /\ UNCHANGED nonResolverVars

\* the chain produces a block while the run is going on
ChainGrows ==
    /\ fpc \in {"idle", "loop", "returned"}
    /\ head < HeadStart + MaxGrowth
    /\ head' = head + 1
    /\ UNCHANGED <<chain, block_time, BLOCK_CACHE, remote_log, lookup_log, f_latest_num,
                   f_latest_ts, f_target, guess, trail, fpc, found, finds>>
    /\ UNCHANGED nonResolverVars

LatestQueries == {k \in 1..Len(remote_log) : remote_log[k] = Latest}

\* get_latest_block: get_block("latest") always queries the provider
GetLatestBlock ==
    /\ fpc \in {"idle", "returned"}
    /\ Cardinality(LatestQueries) < MaxLatest
    /\ remote_log' = Append(remote_log, Latest)
    /\ \E rpc_fails \in BOOLEAN :
          IF rpc_fails
          THEN /\ fpc' = "raised"
               /\ UNCHANGED <<lookup_log, f_latest_num, f_latest_ts>>
          ELSE /\ lookup_log' = Append(lookup_log,
                     [number |-> Latest, blk |-> BlockData(head), remote |-> TRUE])
               /\ f_latest_num' = head
               /\ f_latest_ts' = BlockTs(head)
               /\ fpc' = "idle"
    /\ BLOCK_CACHE' = cache_after(Latest, BlockData(head))
    /\ UNCHANGED <<chain, head, block_time, f_target, guess, trail, found, finds>>
    /\ UNCHANGED nonResolverVars

\* find_block_for_timestamp is called: the first guess
FindBegin ==
    /\ fpc \in {"idle", "returned"}
    /\ f_latest_num >= 0
    /\ finds < MaxFinds
    /\ \E target \in FindTargets :
          /\ target <= f_latest_ts
          /\ f_target' = target
          /\ guess' = first_guess(target)
    /\ trail' = <<>>
    /\ found' = -1
    /\ finds' = finds + 1
    /\ fpc' = "loop"
    /\ UNCHANGED <<chain, head, block_time, BLOCK_CACHE, remote_log, lookup_log,
                   f_latest_num, f_latest_ts>>
    /\ UNCHANGED nonResolverVars

\* one round of the loop: get_block(hex(guess)) from the cache or the provider, the
\* tolerance test, the adjustment; after the last round the function returns guess
FindRound ==
    /\ fpc = "loop"
    /\ IF cache_hit(Number(guess))
       THEN LET blk == BLOCK_CACHE[guess]
                diff == blk.timestamp - f_target
                nxt == IF Abs(diff) <= TOLERANCE THEN guess ELSE next_guess(guess, diff)
            IN /\ lookup_log' = Append(lookup_log,
                      [number |-> Number(guess), blk |-> blk, remote |-> FALSE])
               /\ trail' = Append(trail, [guess |-> guess, diff |-> diff, next |-> nxt])
               /\ guess' = nxt
               /\ IF Abs(diff) <= TOLERANCE \/ range_exhausted(Len(trail) + 1)
                  THEN found' = nxt /\ fpc' = "returned"
                  ELSE UNCHANGED <<found, fpc>>
               /\ UNCHANGED <<BLOCK_CACHE, remote_log>>
       ELSE /\ remote_log' = Append(remote_log, Number(guess))
            /\ \E rpc_fails \in BOOLEAN :
                  IF rpc_fails
                  THEN /\ fpc' = "raised"
                       /\ UNCHANGED <<BLOCK_CACHE, lookup_log, trail, guess, found>>
                  ELSE LET blk == BlockData(guess)
                       IN /\ BLOCK_CACHE' = cache_after(Number(guess), blk)
                          /\ lookup_log' = Append(lookup_log,
                                [number |-> Number(guess), blk |-> blk, remote |-> TRUE])
                          /\ IF blk = None
                             THEN /\ fpc' = "raised"
                                  /\ UNCHANGED <<trail, guess, found>>
                             ELSE LET diff == blk.timestamp - f_target
                                      nxt == IF Abs(diff) <= TOLERANCE THEN guess
                                             ELSE next_guess(guess, diff)
                                  IN /\ trail' = Append(trail,
                                           [guess |-> guess, diff |-> diff, next |-> nxt])
                                     /\ guess' = nxt
                                     /\ IF Abs(diff) <= TOLERANCE
                                           \/ range_exhausted(Len(trail) + 1)
                                        THEN found' = nxt /\ fpc' = "returned"
                                        ELSE UNCHANGED <<found, fpc>>
    /\ UNCHANGED <<chain, head, block_time, f_latest_num, f_latest_ts, f_target, finds>>
    /\ UNCHANGED nonResolverVars

InitResolver ==
    /\ ResolverAtRest
    /\ PushAtRest
    /\ ConfigAtRest
    /\ TickAtRest
    /\ RaceAtRest
    /\ V3AtRest
    /\ RpcAtRest
    /\ BuildAtRest
    /\ EngineAtRest

NextResolver ==
    \/ Connect
    \/ ChainGrows
    \/ GetLatestBlock
    \/ FindBegin
    \/ FindRound

SpecResolver == InitResolver /\ [][NextResolver]_vars

----------------------------------------------------------------------------
(* Pushes to the Worker: survival_km_v3.maybe_ingest_to_worker and            *)
(* compute_survival_from_prices.push_survival_to_worker                       *)

IngestUrls == {"", "https://w.dev/ingest", "/ingest"}

BaseUrls == {"", "https://w.dev"}

\* what a post to the Worker can come to
PushOutcomes == {"ok", "http_error", "connection_error"}

\* what the GET /prices of compute_survival_from_prices can come to
FetchOutcomes == {"rows", "not_ok", "no_rows", "empty_after_parsing"}

\* url.rstrip("/").rsplit("/", 1)[0]
rsplit_head(url) ==
    CASE url = "https://w.dev/ingest" -> "https://w.dev"
      [] url = "/ingest" -> ""
      [] OTHER -> url

\* _worker_base_url
worker_base_url ==
    IF WORKER_BASE_URL # "" THEN WORKER_BASE_URL
    ELSE IF WORKER_INGEST_URL # "" THEN rsplit_head(WORKER_INGEST_URL)
    ELSE ""

Push(endpoint, outcome) ==
    [endpoint |-> endpoint, outcome |-> outcome, reported |-> report_written]

\* the warnings after a post: one more when it failed
warned(endpoint, outcome) ==
    IF outcome = "ok" THEN warnings ELSE Append(warnings, endpoint)

\* survival_km_v3 is started with some environment; main runs up to the computed
\* recommendations
StartV3 ==
    /\ ppc = "unstarted"
    /\ program' = "survival_km_v3"
    /\ \E enabled \in BOOLEAN, ingest \in IngestUrls, base \in BaseUrls :
          /\ ENABLE_D1_INGEST' = enabled
          /\ WORKER_INGEST_URL' = ingest
          /\ WORKER_BASE_URL' = base
    /\ ppc' = "computed"
    /\ UNCHANGED <<report_written, pushes, warnings, exit_status>>
    /\ UNCHANGED nonPushVars

\* main: to_csv and save_recommendations_json, then maybe_ingest_to_worker is entered:
\* it returns at once when the ingest is off or has no URL
WriteReport ==
    /\ program = "survival_km_v3"
    /\ ppc = "computed"
    /\ report_written' = TRUE
    /\ ppc' = IF ~ENABLE_D1_INGEST \/ WORKER_INGEST_URL = "" THEN "ingested"
              ELSE "legacy"
    /\ UNCHANGED <<program, ENABLE_D1_INGEST, WORKER_INGEST_URL, WORKER_BASE_URL,
                   pushes, warnings, exit_status>>
    /\ UNCHANGED nonPushVars

PushLegacy_abortsOnFailure ==
    /\ program = "survival_km_v3"
    /\ ppc = "legacy"
    /\ \E outcome \in PushOutcomes :
          /\ pushes' = Append(pushes, Push("legacy_ingest", outcome))
          /\ warnings' = warned("legacy_ingest", outcome)
          /\ ppc' = IF outcome # "ok" \/ worker_base_url = "" THEN "ingested"
                    ELSE "append"
    /\ UNCHANGED <<program, ENABLE_D1_INGEST, WORKER_INGEST_URL, WORKER_BASE_URL,
                   report_written, exit_status>>
    /\ UNCHANGED nonPushVars

\* the legacy ingest post in its try/except, then "if not base_url: return"
PushLegacy ==
    /\ program = "survival_km_v3"
    /\ ppc = "legacy"
    /\ \E outcome \in PushOutcomes :
          /\ pushes' = Append(pushes, Push("legacy_ingest", outcome))
          /\ warnings' = warned("legacy_ingest", outcome)
    /\ ppc' = IF worker_base_url = "" THEN "ingested" ELSE "append"
    /\ UNCHANGED <<program, ENABLE_D1_INGEST, WORKER_INGEST_URL, WORKER_BASE_URL,
                   report_written, exit_status>>
    /\ UNCHANGED nonPushVars

\* the append_prices post in its try/except (the price frame of a run that got here
\* is not empty, so there are rows to post)
PushAppend ==
    /\ program = "survival_km_v3"
    /\ ppc = "append"
    /\ \E outcome \in PushOutcomes :
          /\ pushes' = Append(pushes, Push("append_prices", outcome))
          /\ warnings' = warned("append_prices", outcome)
    /\ ppc' = "survival"
    /\ UNCHANGED <<program, ENABLE_D1_INGEST, WORKER_INGEST_URL, WORKER_BASE_URL,
                   report_written, exit_status>>
    /\ UNCHANGED nonPushVars

\* the ingest_survival post in its try/except
PushSurvival ==
    /\ program = "survival_km_v3"
    /\ ppc = "survival"
    /\ \E outcome \in PushOutcomes :
          /\ pushes' = Append(pushes, Push("ingest_survival", outcome))
          /\ warnings' = warned("ingest_survival", outcome)
    /\ ppc' = "ingested"
    /\ UNCHANGED <<program, ENABLE_D1_INGEST, WORKER_INGEST_URL, WORKER_BASE_URL,
                   report_written, exit_status>>
    /\ UNCHANGED nonPushVars

\* main after maybe_ingest_to_worker: print_recommendations, and the process ends
FinishV3 ==
    /\ program = "survival_km_v3"
    /\ ppc = "ingested"
    /\ ppc' = "exited"
    /\ exit_status' = 0
    /\ UNCHANGED <<program, ENABLE_D1_INGEST, WORKER_INGEST_URL, WORKER_BASE_URL,
                   report_written, pushes, warnings>>
    /\ UNCHANGED nonPushVars

\* compute_survival_from_prices is started with some environment
StartFromPrices ==
    /\ ppc = "unstarted"
    /\ program' = "compute_survival_from_prices"
    /\ \E base \in BaseUrls : WORKER_BASE_URL' = base
    /\ ppc' = "fetch"
    /\ UNCHANGED <<ENABLE_D1_INGEST, WORKER_INGEST_URL, report_written, pushes,
                   warnings, exit_status>>
    /\ UNCHANGED nonPushVars

\* fetch_prices_from_worker, then compute_ticks and generate_recommendation:
\* require_worker_base raises without a base URL, the fetch raises on a bad answer
FetchPricesFromWorker ==
    /\ program = "compute_survival_from_prices"
    /\ ppc = "fetch"
    /\ \E answer \in FetchOutcomes :
          IF WORKER_BASE_URL = "" \/ answer # "rows"
          THEN ppc' = "exited" /\ exit_status' = 1
          ELSE ppc' = "push" /\ UNCHANGED exit_status
    /\ UNCHANGED <<program, ENABLE_D1_INGEST, WORKER_INGEST_URL, WORKER_BASE_URL,
                   report_written, pushes, warnings>>
    /\ UNCHANGED nonPushVars

\* push_survival_to_worker: "if not resp.ok: raise RuntimeError", a connection error
\* leaves requests.post; main catches neither
PushSurvivalToWorker ==
    /\ program = "compute_survival_from_prices"
    /\ ppc = "push"
    /\ \E outcome \in PushOutcomes :
          /\ pushes' = Append(pushes, Push("ingest_survival", outcome))
          /\ exit_status' = IF outcome = "ok" THEN 0 ELSE 1
    /\ ppc' = "exited"
    /\ UNCHANGED <<program, ENABLE_D1_INGEST, WORKER_INGEST_URL, WORKER_BASE_URL,
                   report_written, warnings>>
    /\ UNCHANGED nonPushVars

InitPush ==
    /\ PushAtRest
    /\ ConfigAtRest
    /\ TickAtRest
    /\ RaceAtRest
    /\ V3AtRest
    /\ ResolverAtRest
    /\ RpcAtRest
    /\ BuildAtRest
    /\ EngineAtRest

NextPush ==
    \/ StartV3
    \/ WriteReport
    \/ PushLegacy
    \/ PushAppend
    \/ PushSurvival
    \/ FinishV3
    \/ StartFromPrices
    \/ FetchPricesFromWorker
    \/ PushSurvivalToWorker

SpecPush == InitPush /\ [][NextPush]_vars

----------------------------------------------------------------------------
(* The entry points that require settings: ingest_orca_price,                 *)
(* ingest_prices_solana, compute_survival_from_prices, ingest_prices          *)

Scripts == {"ingest_orca_price", "ingest_prices_solana",
            "compute_survival_from_prices", "ingest_prices"}

\* an environment says which settings are set to a non-empty value; ADDRESS stands
\* for ORCA_WHIRLPOOL_ADDRESS or AERODROME_PAIR_ADDRESS, POOL_V3 for POOL_TYPE=v3
Environments ==
    [PAIR_LABEL : BOOLEAN, ADDRESS : BOOLEAN, WORKER_BASE_URL : BOOLEAN,
     WORKER_INGEST_URL : BOOLEAN, PRICE_SOURCE_URL : BOOLEAN,
     PRICE_SOURCE_FILE : BOOLEAN, POOL_V3 : BOOLEAN]

RemoteOutcomes == {"ok", "fail"}

\* worker_base_url() of the ingest scripts returns a URL
worker_base_known(e) == e.WORKER_BASE_URL \/ e.WORKER_INGEST_URL

\* require_worker_base() of compute_survival_from_prices returns a URL
require_worker_base_ok(e) == e.WORKER_BASE_URL

\* effective_pair_label() returns a label
effective_pair_label_ok(e) == e.PAIR_LABEL \/ e.ADDRESS

\* a script is started in some environment
Launch ==
    /\ cpc = "unstarted"
    /\ \E sc \in Scripts, e \in Environments :
          /\ script' = sc
          /\ env' = e
    /\ cpc' = "main"
    /\ UNCHANGED <<calls, cerror, cstatus>>
    /\ UNCHANGED nonConfigVars

\* the run ends with status st; err names what raised
Ends(st, err) ==
    /\ cpc' = "exited"
    /\ cstatus' = st
    /\ cerror' = err

\* the run goes on to position pos
GoesTo(pos) ==
    /\ cpc' = pos
    /\ UNCHANGED <<cstatus, cerror>>

\* ingest_orca_price.main: the two checks at its top
OrcaCheck ==
    /\ script = "ingest_orca_price" /\ cpc = "main"
    /\ IF ~env.PAIR_LABEL \/ ~env.ADDRESS
       THEN Ends(1, "pair")
       ELSE GoesTo("fetch")
    /\ UNCHANGED <<script, env, calls>>
    /\ UNCHANGED nonConfigVars

\* ingest_orca_price.main: fetch_whirlpool_entry and compute_price_from_entry
OrcaFetchEntry ==
    /\ script = "ingest_orca_price" /\ cpc = "fetch"
    /\ calls' = Append(calls, "orca_api")
    /\ \E answer \in RemoteOutcomes :
          IF answer = "ok" THEN GoesTo("append") ELSE Ends(1, "remote")
    /\ UNCHANGED <<script, env>>
    /\ UNCHANGED nonConfigVars

\* append_prices of ingest_orca_price and of ingest_prices_solana: worker_base_url()
\* raises without a URL, else the rows are posted
AppendPrices ==
    /\ script \in {"ingest_orca_price", "ingest_prices_solana"} /\ cpc = "append"
    /\ IF ~worker_base_known(env)
       THEN Ends(1, "endpoint") /\ UNCHANGED calls
       ELSE /\ calls' = Append(calls, "append_prices")
            /\ \E answer \in RemoteOutcomes :
                  IF answer = "ok" THEN Ends(0, "") ELSE Ends(1, "remote")
    /\ UNCHANGED <<script, env>>
    /\ UNCHANGED nonConfigVars

\* ingest_prices_solana.main up to append_prices: PAIR_LABEL falls back to
\* "UNKNOWN_PAIR"; the rows come from PRICE_SOURCE_URL, else from PRICE_SOURCE_FILE;
\* no rows left after normalize_rows or serialize_numeric_ts ends the run quietly
SolanaLoad ==
    /\ script = "ingest_prices_solana" /\ cpc = "main"
    /\ IF env.PRICE_SOURCE_URL
       THEN /\ calls' = Append(calls, "price_source")
            /\ \E answer \in RemoteOutcomes, have_rows \in BOOLEAN :
                  IF answer # "ok" THEN Ends(1, "remote")
                  ELSE IF have_rows THEN GoesTo("append") ELSE Ends(0, "")
       ELSE IF env.PRICE_SOURCE_FILE
       THEN /\ UNCHANGED calls
            /\ \E readable \in BOOLEAN, have_rows \in BOOLEAN :
                  IF ~readable THEN Ends(1, "file")
                  ELSE IF have_rows THEN GoesTo("append") ELSE Ends(0, "")
       ELSE Ends(1, "source") /\ UNCHANGED calls
    /\ UNCHANGED <<script, env>>
    /\ UNCHANGED nonConfigVars

\* compute_survival_from_prices.main: effective_pair_label
CsfpPairLabel ==
    /\ script = "compute_survival_from_prices" /\ cpc = "main"
    /\ IF effective_pair_label_ok(env) THEN GoesTo("fetch") ELSE Ends(1, "pair")
    /\ UNCHANGED <<script, env, calls>>
    /\ UNCHANGED nonConfigVars

\* compute_survival_from_prices.main: fetch_prices_from_worker, then the computation
CsfpFetch ==
    /\ script = "compute_survival_from_prices" /\ cpc = "fetch"
    /\ IF ~require_worker_base_ok(env)
       THEN Ends(1, "endpoint") /\ UNCHANGED calls
       ELSE /\ calls' = Append(calls, "worker_prices")
            /\ \E answer \in RemoteOutcomes :
                  IF answer = "ok" THEN GoesTo("push") ELSE Ends(1, "remote")
    /\ UNCHANGED <<script, env>>
    /\ UNCHANGED nonConfigVars

\* compute_survival_from_prices.main: push_survival_to_worker
CsfpPush ==
    /\ script = "compute_survival_from_prices" /\ cpc = "push"
    /\ calls' = Append(calls, "ingest_survival")
    /\ \E answer \in RemoteOutcomes :
          IF answer = "ok" THEN Ends(0, "") ELSE Ends(1, "remote")
    /\ UNCHANGED <<script, env>>
    /\ UNCHANGED nonConfigVars

\* ingest_prices.main: fetch_prices calls worker_base_url() first, pair_label() always
\* has a fallback, then get_price_data is called with worker_base_url=..., a keyword
\* only survival_km_v3.get_price_data accepts
IngestFetch ==
    /\ script = "ingest_prices" /\ cpc = "main"
    /\ IF ~worker_base_known(env)
       THEN Ends(1, "endpoint") /\ UNCHANGED calls
       ELSE IF ~env.POOL_V3
       THEN Ends(1, "keyword") /\ UNCHANGED calls
       ELSE /\ calls' = Append(calls, "chain_rpc")
            /\ \E answer \in RemoteOutcomes :
                  IF answer = "ok" THEN GoesTo("ingest_append") ELSE Ends(1, "remote")
    /\ UNCHANGED <<script, env>>
    /\ UNCHANGED nonConfigVars

\* ingest_prices.main: append_prices
IngestAppend ==
    /\ script = "ingest_prices" /\ cpc = "ingest_append"
    /\ calls' = Append(calls, "append_prices")
    /\ \E answer \in RemoteOutcomes :
          IF answer = "ok" THEN Ends(0, "") ELSE Ends(1, "remote")
    /\ UNCHANGED <<script, env>>
    /\ UNCHANGED nonConfigVars

InitConfig ==
    /\ ConfigAtRest
    /\ TickAtRest
    /\ RaceAtRest
    /\ V3AtRest
    /\ PushAtRest
    /\ ResolverAtRest
    /\ RpcAtRest
    /\ BuildAtRest
    /\ EngineAtRest

NextConfig ==
    \/ Launch
    \/ OrcaCheck
    \/ OrcaFetchEntry
    \/ AppendPrices
    \/ SolanaLoad
    \/ CsfpPairLabel
    \/ CsfpFetch
    \/ CsfpPush
    \/ IngestFetch
    \/ IngestAppend

SpecConfig == InitConfig /\ [][NextConfig]_vars

----------------------------------------------------------------------------
(* compute_ticks *)

LogQs == {-5, -4, -1, 0, 1, 4, 5}

TickPrices ==
    {[sign |-> 1, log_q |-> q] : q \in LogQs}
        \cup {[sign |-> 0, log_q |-> 0], [sign |-> -1, log_q |-> 0]}

TickTimes == {0, 1800}

\* every frame of at most n rows, in any order of timestamps
RECURSIVE PriceFrames(_)
PriceFrames(n) ==
    IF n = 0 THEN {<<>>}
    ELSE LET shorter == PriceFrames(n - 1)
         IN shorter \cup {Append(f, [timestamp |-> t, price |-> p]) :
                            f \in {g \in shorter : Len(g) = n - 1},
                            t \in TickTimes, p \in TickPrices}

\* df[df["price"] > 0].reset_index(drop=True)
RECURSIVE positive_rows(_)
positive_rows(f) ==
    IF f = <<>> THEN <<>>
    ELSE IF Head(f).price.sign > 0 THEN <<Head(f)>> \o positive_rows(Tail(f))
    ELSE positive_rows(Tail(f))

\* the quotient rounded toward zero, as int() of a float does
tick_of_truncated(log_price) ==
    IF log_price >= 0 THEN log_price \div LogGrain ELSE -((-log_price) \div LogGrain)

\* np.floor(log_price / math.log(1.0001)).astype(int)
tick_of(log_price) == log_price \div LogGrain

compute_ticks(f) ==
    LET kept == positive_rows(f)
    IN [k \in 1..Len(kept) |->
           [timestamp |-> kept[k].timestamp,
            price     |-> kept[k].price,
            log_price |-> kept[k].price.log_q,
            tick      |-> tick_of(kept[k].price.log_q)]]

CallComputeTicks ==
    /\ tkpc = "rest"
    /\ \E f \in PriceFrames(MaxLen) : price_rows' = f
    /\ tkpc' = "start"
    /\ UNCHANGED tick_rows
    /\ UNCHANGED nonTickVars

ComputeTicks ==
    /\ tkpc = "start"
    /\ tick_rows' = compute_ticks(price_rows)
    /\ tkpc' = "done"
    /\ UNCHANGED price_rows
    /\ UNCHANGED nonTickVars

InitTicks ==
    /\ TickAtRest
    /\ RaceAtRest
    /\ V3AtRest
    /\ ConfigAtRest
    /\ PushAtRest
    /\ ResolverAtRest
    /\ RpcAtRest
    /\ BuildAtRest
    /\ EngineAtRest

NextTicks ==
    \/ CallComputeTicks
    \/ ComputeTicks

SpecTicks == InitTicks /\ [][NextTicks]_vars

----------------------------------------------------------------------------
(* Two runs of get_price_data against one cache key, with no coordination *)

Runs == {1, 2}

\* the row of a grid point: the chain gives every run the same price at a timestamp
row_at(ts) == records_for(ts, ts \div BASE_BLOCK_TIME_SEC, <<1, 2>>)[1]

\* the cache files the two runs may find: none, or the save of an earlier run
EarlierSaves ==
    {<<>>, <<row_at(3600)>>, <<row_at(3600), row_at(5400)>>,
     <<row_at(3600), row_at(5400), row_at(7200)>>}

units_of(frame, by) == [i \in 1..Len(frame) |-> [row |-> frame[i], by |-> by]]

\* pd.read_json(path): the rows of the file; ValueError, hence the empty frame, when
\* the file is empty or holds the text of one save followed by the rest of another
read_json(file) ==
    IF \E i, j \in 1..Len(file) : file[i].by # file[j].by THEN <<>>
    ELSE [i \in 1..Len(file) |-> file[i].row]

\* open(path, "w"): the file is truncated when it is opened
open_w(file) == <<>>

\* handle.write(text) at offset 0 of a handle that keeps its own offset: the text
\* replaces the start of the file and leaves what lies beyond its end
write_at_0(file, units) ==
    units \o (IF Len(file) > Len(units) THEN SubSeq(file, Len(units) + 1, Len(file))
              ELSE <<>>)

\* the grid points of a window that are not in existing_ts, in steps of the interval
RECURSIVE missing_points(_, _, _)
missing_points(ts, end, existing) ==
    IF ts > end THEN {}
    ELSE (IF ts \in existing THEN {} ELSE {ts})
            \cup missing_points(ts + SAMPLE_INTERVAL_SEC, end, existing)

\* the records of a walk that read a valid price at the points of S, in grid order
RECURSIVE records_of_walk(_)
records_of_walk(S) ==
    IF S = {} THEN <<>>
    ELSE <<row_at(Least(S))>> \o records_of_walk(S \ {Least(S)})

\* the first load against the local clock; with use_cache set and a non-empty frame
\* the run returns it and writes nothing
RaceFirstLoad(p) ==
    /\ rpos[p] = "idle"
    /\ \E use_cache_flag \in BOOLEAN, approx_now \in NowVals :
          LET first == load_cached_prices(read_json(disk),
                           approx_now - LOOKBACK_HOURS * SecPerHour, approx_now)
          IN rpos' = [rpos EXCEPT ![p] =
                         IF use_cache_flag /\ first # <<>> THEN "returned" ELSE "latest"]
    /\ UNCHANGED <<disk, rnow, rcached, rrecords, rsaved, writes>>
    /\ UNCHANGED nonRaceVars

\* get_latest_block, the load for the window, and the while loop: the missing grid
\* points are resolved and read, those with a valid read give a record
RaceWalk(p) ==
    /\ rpos[p] = "latest"
    /\ \E latest_ts \in NowVals :
          LET start  == latest_ts - LOOKBACK_HOURS * SecPerHour
              loaded == load_cached_prices(read_json(disk), start, latest_ts)
          IN /\ rnow' = [rnow EXCEPT ![p] = latest_ts]
             /\ rcached' = [rcached EXCEPT ![p] = loaded]
             /\ \E S \in SUBSET missing_points(start, latest_ts, existing_ts_of(loaded)) :
                   rrecords' = [rrecords EXCEPT ![p] = records_of_walk(S)]
    /\ rpos' = [rpos EXCEPT ![p] = "merge"]
    /\ UNCHANGED <<disk, rsaved, writes>>
    /\ UNCHANGED nonRaceVars

\* a remote call of the run raises: the run ends and writes nothing
RaceRaises(p) ==
    /\ rpos[p] = "latest"
    /\ rpos' = [rpos EXCEPT ![p] = "failed"]
    /\ UNCHANGED <<disk, rnow, rcached, rrecords, rsaved, writes>>
    /\ UNCHANGED nonRaceVars

\* the merge, the check for an empty frame, and the open of df.to_json(path)
RaceOpen(p) ==
    /\ rpos[p] = "merge"
    /\ LET merged == merge_prices(rcached[p], rrecords[p])
       IN IF df_empty(merged)
          THEN /\ rpos' = [rpos EXCEPT ![p] = "failed"]
               /\ UNCHANGED <<disk, rsaved>>
          ELSE /\ rpos' = [rpos EXCEPT ![p] = "opened"]
               /\ rsaved' = [rsaved EXCEPT ![p] = merged]
               /\ disk' = open_w(disk)
    /\ UNCHANGED <<rnow, rcached, rrecords, writes>>
    /\ UNCHANGED nonRaceVars

\* the write of the text and the close of the handle; the run returns
RaceWrite(p) ==
    /\ rpos[p] = "opened"
    /\ disk' = write_at_0(disk, units_of(rsaved[p], p))
    /\ writes' = Append(writes, p)
    /\ rpos' = [rpos EXCEPT ![p] = "returned"]
    /\ UNCHANGED <<rnow, rcached, rrecords, rsaved>>
    /\ UNCHANGED nonRaceVars

InitRace ==
    /\ V3AtRest
    /\ TickAtRest
    /\ ConfigAtRest
    /\ PushAtRest
    /\ ResolverAtRest
    /\ RpcAtRest
    /\ BuildAtRest
    /\ EngineAtRest
    /\ \E earlier \in EarlierSaves : disk = units_of(earlier, 0)
    /\ rpos = [p \in Runs |-> "idle"]
    /\ rnow = [p \in Runs |-> 0]
    /\ rcached = [p \in Runs |-> <<>>]
    /\ rrecords = [p \in Runs |-> <<>>]
    /\ rsaved = [p \in Runs |-> <<>>]
    /\ writes = <<>>

NextRace ==
    \E p \in Runs :
        \/ RaceFirstLoad(p)
        \/ RaceWalk(p)
        \/ RaceRaises(p)
        \/ RaceOpen(p)
        \/ RaceWrite(p)

SpecRace == InitRace /\ [][NextRace]_vars

----------------------------------------------------------------------------
(* survival_km_v3.get_price_data *)

\* what call_slot0 may return at a block: nothing, zero, or a square-root price; the
\* value is kept in units of 2^95, so that (sqrt ** 2) / (2 ** 192) is x95 * x95 / 4
SqrtReads == {None, [x95 |-> 0], [x95 |-> 3]}

\* last_ts_sec after the request to the Worker: None when worker_base_url is unset, the
\* request fails or the answer has no last_ts, else the timestamp in seconds
LastTsAnswers ==
    {None} \cup {[sec |-> k * SAMPLE_INTERVAL_SEC] : k \in {0, 1, 2, 5}}

\* latest block timestamps a run may see: block times lie more than the lookback and
\* an interval after the epoch
V3NowVals ==
    {LOOKBACK_HOURS * SecPerHour + 2 * SAMPLE_INTERVAL_SEC,
     LOOKBACK_HOURS * SecPerHour + 2 * SAMPLE_INTERVAL_SEC + SAMPLE_INTERVAL_SEC \div 2,
     LOOKBACK_HOURS * SecPerHour + 3 * SAMPLE_INTERVAL_SEC}

\* price = (sqrt_price_x96 ** 2) / (2 ** 192) * (10 ** (dec0 - dec1))
price_of_sqrt(x95) == <<x95 * x95 * pow10(Decimals[1] - Decimals[2]), 4>>

\* 1 / price
inverse(price) == <<price[2], price[1]>>

\* cached_df["price"] = 1 / cached_df["price"] when invert_flag is set
invert_cached(frame, invert_flag) ==
    IF invert_flag
    THEN [i \in 1..Len(frame) |-> [frame[i] EXCEPT !.price = inverse(@)]]
    ELSE frame

\* load_cached_prices of survival_km_v3: the rows of the file inside the window, or the
\* empty frame when pd.read_json raises ValueError on the file
load_cached_prices_v3(file, start, end, readable) ==
    IF readable THEN load_cached_prices(file, start, end) ELSE <<>>

\* the rows appended for one grid point: one row when slot0 gave a non-zero value
records_for_sqrt(ts, blk_num, sqrt, invert_flag) ==
    IF sqrt # None /\ sqrt.x95 # 0
    THEN LET price == price_of_sqrt(sqrt.x95)
         IN << [timestamp |-> ts,
                price     |-> IF invert_flag /\ price[1] # 0 THEN inverse(price) ELSE price,
                block     |-> blk_num] >>
    ELSE <<>>

\* the walk entered at start_ts whatever the Worker reported
first_target_ignoringLastTs(start, last, latest) == start

\* target_ts at the entry of the loop: one interval after last_ts_sec when the Worker
\* gave a non-zero last_ts_sec earlier than now and that is inside the window, else
\* start_ts
first_target(start, last, latest) ==
    IF last # None /\ last.sec # 0 /\ last.sec < latest
    THEN LET aligned == last.sec + SAMPLE_INTERVAL_SEC
         IN IF aligned >= start THEN aligned ELSE start
    ELSE start

Min(a, b) == IF a <= b THEN a ELSE b

\* get_price_data up to the while loop: the first load, the inversion of what it
\* loaded, the early return, the request to the Worker, get_latest_block, the choice
\* of target_ts, and the load for the window with its inversion
V3Begin ==
    /\ v3_pos = "idle"
    /\ v3_builds < MaxBuilds
    /\ \E use_cache_flag \in BOOLEAN, approx_now \in V3NowVals, latest_ts \in V3NowVals,
          answer \in LastTsAnswers, readable1 \in BOOLEAN, readable2 \in BOOLEAN :
          LET first == invert_cached(
                           load_cached_prices_v3(v3_cache,
                               approx_now - LOOKBACK_HOURS * SecPerHour, approx_now,
                               readable1),
                           v3_invert)
              start  == latest_ts - LOOKBACK_HOURS * SecPerHour
              target == first_target(start, answer, latest_ts)
              window == Min(start, target)
          IN /\ latest_ts >= v3_now
             /\ approx_now >= v3_now
             /\ IF use_cache_flag /\ first # <<>>
                THEN /\ v3_result' = first
                     /\ v3_cached_df' = first
                     /\ v3_pos' = "returned"
                     /\ v3_last_ts' = None
                     /\ UNCHANGED <<v3_now, v3_start_ts, v3_first_ts, v3_target_ts>>
                ELSE /\ v3_last_ts' = answer
                     /\ v3_now' = latest_ts
                     /\ v3_start_ts' = window
                     /\ v3_first_ts' = target
                     /\ v3_target_ts' = target
                     /\ v3_cached_df' = invert_cached(
                            load_cached_prices_v3(v3_cache, window, latest_ts, readable2),
                            v3_invert)
                     /\ v3_result' = <<>>
                     /\ v3_pos' = "walk"
    /\ v3_builds' = v3_builds + 1
    /\ v3_cache_at_start' = v3_cache
    /\ UNCHANGED <<v3_cache, v3_invert, v3_records, v3_counter, v3_log>>
    /\ UNCHANGED nonV3Vars

\* one turn of the loop on a grid point found in existing_ts
V3Skip ==
    /\ v3_pos = "walk"
    /\ v3_target_ts <= v3_now
    /\ v3_target_ts \in existing_ts_of(v3_cached_df)
    /\ v3_target_ts' = v3_target_ts + SAMPLE_INTERVAL_SEC
    /\ UNCHANGED <<v3_cache, v3_pos, v3_builds, v3_invert, v3_last_ts, v3_now, v3_start_ts,
                   v3_first_ts, v3_cached_df, v3_records, v3_counter, v3_result, v3_log,
                   v3_cache_at_start>>
    /\ UNCHANGED nonV3Vars

\* one turn of the loop on a grid point not in existing_ts
V3Fetch ==
    /\ v3_pos = "walk"
    /\ v3_target_ts <= v3_now
    /\ v3_target_ts \notin existing_ts_of(v3_cached_df)
    /\ \E sqrt \in SqrtReads :
          v3_records' = v3_records
                \o records_for_sqrt(v3_target_ts, v3_target_ts \div BASE_BLOCK_TIME_SEC,
                                    sqrt, v3_invert)
    /\ v3_counter' = v3_counter + 1
    /\ v3_log' = v3_log
          \o << [op |-> "find_block", ts |-> v3_target_ts],
                [op |-> "slot0", ts |-> v3_target_ts] >>
          \o (IF pause_due(v3_counter + 1) THEN << [op |-> "sleep"] >> ELSE <<>>)
    /\ v3_target_ts' = v3_target_ts + SAMPLE_INTERVAL_SEC
    /\ UNCHANGED <<v3_cache, v3_pos, v3_builds, v3_invert, v3_last_ts, v3_now, v3_start_ts,
                   v3_first_ts, v3_cached_df, v3_result, v3_cache_at_start>>
    /\ UNCHANGED nonV3Vars

\* a remote call of the turn raises out of rpc_call: the run ends with the error
V3FetchRaises ==
    /\ v3_pos = "walk"
    /\ v3_target_ts <= v3_now
    /\ v3_target_ts \notin existing_ts_of(v3_cached_df)
    /\ v3_log' = Append(v3_log, [op |-> "raised", ts |-> v3_target_ts])
    /\ v3_pos' = "failed"
    /\ UNCHANGED <<v3_cache, v3_builds, v3_invert, v3_last_ts, v3_now, v3_start_ts,
                   v3_first_ts, v3_target_ts, v3_cached_df, v3_records, v3_counter,
                   v3_result, v3_cache_at_start>>
    /\ UNCHANGED nonV3Vars

\* after the loop: the merge, the error on an empty frame, the save and the return
V3Finish ==
    /\ v3_pos = "walk"
    /\ v3_target_ts > v3_now
    /\ LET merged == merge_prices(v3_cached_df, v3_records)
       IN IF df_empty(merged)
          THEN /\ v3_pos' = "failed"
               /\ UNCHANGED <<v3_cache, v3_result>>
          ELSE /\ v3_cache' = merged
               /\ v3_result' = merged
               /\ v3_pos' = "returned"
    /\ UNCHANGED <<v3_builds, v3_invert, v3_last_ts, v3_now, v3_start_ts, v3_first_ts,
                   v3_target_ts, v3_cached_df, v3_records, v3_counter, v3_log,
                   v3_cache_at_start>>
    /\ UNCHANGED nonV3Vars

\* the process has ended; the next run keeps the cache file and the setting
V3NextRun ==
    /\ v3_pos \in {"returned", "failed"}
    /\ v3_builds < MaxBuilds
    /\ v3_pos' = "idle"
    /\ v3_last_ts' = None
    /\ v3_start_ts' = 0
    /\ v3_first_ts' = 0
    /\ v3_target_ts' = 0
    /\ v3_cached_df' = <<>>
    /\ v3_records' = <<>>
    /\ v3_counter' = 0
    /\ v3_result' = <<>>
    /\ v3_log' = <<>>
    /\ v3_cache_at_start' = v3_cache
    /\ UNCHANGED <<v3_cache, v3_builds, v3_invert, v3_now>>
    /\ UNCHANGED nonV3Vars

InitBuildV3 ==
    /\ RaceAtRest
    /\ TickAtRest
    /\ ConfigAtRest
    /\ PushAtRest
    /\ ResolverAtRest
    /\ RpcAtRest
    /\ BuildAtRest
    /\ EngineAtRest
    /\ v3_cache = <<>>
    /\ v3_pos = "idle"
    /\ v3_builds = 0
    /\ v3_invert \in BOOLEAN
    /\ v3_last_ts = None
    /\ v3_now = 0
    /\ v3_start_ts = 0
    /\ v3_first_ts = 0
    /\ v3_target_ts = 0
    /\ v3_cached_df = <<>>
    /\ v3_records = <<>>
    /\ v3_counter = 0
    /\ v3_result = <<>>
    /\ v3_log = <<>>
    /\ v3_cache_at_start = <<>>

NextBuildV3 ==
    \/ V3Begin
    \/ V3Skip
    \/ V3Fetch
    \/ V3FetchRaises
    \/ V3Finish
    \/ V3NextRun

SpecBuildV3 == InitBuildV3 /\ [][NextBuildV3]_vars

----------------------------------------------------------------------------
(* Properties of compute_survival, under SpecSurvival *)

LimitOf(i) == df[i].timestamp + horizon_hours * SecPerHour
LastTime == df[Len(df)].timestamp

\* the indices j > i inside the horizon of i whose tick is outside the inclusive
\* band [tick[i] - W, tick[i] + W]
Breaches(i) ==
    {j \in (i + 1)..Len(df) :
        /\ df[j].timestamp <= LimitOf(i)
        /\ (df[j].tick < df[i].tick - W \/ df[j].tick > df[i].tick + W)}

Computed == pc = "done" /\ df # <<>>

\* C1: a sample has event = 1 exactly when some later point inside its horizon has a
\* tick outside the inclusive band; the scan then stops at the first such point and the
\* duration is the time elapsed to it.
C1_EventIffFirstBreach ==
    Computed =>
        \A i \in 1..Len(df) :
            /\ (events[i] = 1) <=> (Breaches(i) # {})
            /\ Breaches(i) # {} =>
                  /\ exit_index[i] = Least(Breaches(i))
                  /\ durations[i] = df[Least(Breaches(i))].timestamp - df[i].timestamp
            /\ Breaches(i) = {} => exit_index[i] = 0

\* an event found after a point lying exactly on the edge of the band was passed over
C1_Witness ==
    /\ Computed
    /\ \E i \in 1..Len(df) :
          /\ events[i] = 1
          /\ exit_index[i] > i + 1
          /\ \E j \in (i + 1)..(exit_index[i] - 1) : df[j].tick = df[i].tick + W
          /\ durations[i] > 0

\* C2: a sample with no breach inside its horizon is censored; its duration is the
\* whole horizon when the data reach the end of the horizon, and the time left to the
\* last point of the data otherwise.
C2_CensoredDuration ==
    Computed =>
        \A i \in 1..Len(df) :
            Breaches(i) = {} =>
                /\ events[i] = 0
                /\ durations[i] = IF LimitOf(i) <= LastTime
                                     THEN horizon_hours * SecPerHour
                                     ELSE LastTime - df[i].timestamp

\* one censored sample with full follow-up and one cut short by the end of the data
\* before the last index
C2_Witness ==
    /\ Computed
    /\ \E i, k \in 1..Len(df) :
          /\ i < k /\ k < Len(df)
          /\ Breaches(i) = {} /\ LimitOf(i) <= LastTime
          /\ durations[i] = horizon_hours * SecPerHour
          /\ Breaches(k) = {} /\ LimitOf(k) > LastTime
          /\ durations[k] > 0

\* C3: one sample per index, count_total is the length of the series, and
\* count_full_followup is the number of indices whose horizon ends inside the data,
\* whatever W and the events are; a series of one constant tick has no event.
C3_Counts ==
    Computed =>
        /\ Len(durations) = Len(df)
        /\ Len(events) = Len(df)
        /\ Len(full_followup) = Len(df)
        /\ metrics.count_total = Len(df)
        /\ metrics.count_full_followup =
               Cardinality({i \in 1..Len(df) : LimitOf(i) <= LastTime})
        /\ \A w \in SurvWindows :
               compute_survival(df, w, horizon_hours).count_full_followup =
                   metrics.count_full_followup
        /\ (\A i \in 1..Len(df) : df[i].tick = df[1].tick) =>
               \A i \in 1..Len(df) : events[i] = 0

\* a fully followed-up sample that saw an event, beside a sample without full follow-up
C3_Witness ==
    /\ Computed
    /\ \E i, k \in 1..Len(df) :
          /\ full_followup[i] /\ events[i] = 1
          /\ ~full_followup[k]
    /\ metrics.count_full_followup < metrics.count_total

\* C4: empirical_full is not-a-number exactly when count_full_followup = 0; otherwise
\* it is the number of fully followed-up samples with event = 0 and a duration of at
\* least the horizon, over count_full_followup, and lies in [0, 1].
C4_EmpiricalFull ==
    Computed =>
        LET e == metrics.empirical_full
            survivors == {i \in 1..Len(df) :
                             /\ full_followup[i]
                             /\ events[i] = 0
                             /\ durations[i] >= horizon_hours * SecPerHour}
        IN /\ e.nan <=> (metrics.count_full_followup = 0)
           /\ ~e.nan =>
                 /\ e.num = Cardinality(survivors)
                 /\ e.den = metrics.count_full_followup
                 /\ 0 <= e.num /\ e.num <= e.den

\* a fraction strictly between 0 and 1, with an event observed exactly at the horizon
C4_Witness ==
    /\ Computed
    /\ ~metrics.empirical_full.nan
    /\ 0 < metrics.empirical_full.num
    /\ metrics.empirical_full.num < metrics.empirical_full.den
    /\ \E i \in 1..Len(df) :
          events[i] = 1 /\ durations[i] = horizon_hours * SecPerHour

----------------------------------------------------------------------------
(* Properties of the gating, under SpecGating *)

Gated == pc = "done" /\ Len(rows) = 1

KmPasses(m) == 10 * m.km_surv[1] >= 6 * m.km_surv[2]
TotalPasses(m) == m.count_total >= 200
FullPasses(m) == m.count_full_followup >= 100

\* C5: status is ACCEPTED exactly when km_surv >= 0.6, count_total >= 200 and
\* count_full_followup >= 100, all three inclusive; otherwise it is REJECTED, and no
\* other status exists.
C5_AcceptedIffThresholds ==
    Gated =>
        /\ rows[1].status \in {"ACCEPTED", "REJECTED"}
        /\ (rows[1].status = "ACCEPTED") <=>
               (KmPasses(metrics) /\ TotalPasses(metrics) /\ FullPasses(metrics))

\* the cell exactly on the three thresholds is accepted
C5_Witness ==
    /\ Gated
    /\ metrics.km_surv = <<3, 5>>
    /\ metrics.count_total = 200
    /\ metrics.count_full_followup = 100
    /\ rows[1].status = "ACCEPTED"

ExpectedReason(m) ==
    (IF KmPasses(m) THEN "km_surv >= 0.6" ELSE "km_surv < 0.6") \o " & " \o
    (IF TotalPasses(m) THEN "count_total >= 200" ELSE "count_total < 200") \o " & " \o
    (IF FullPasses(m) THEN "count_full >= 100" ELSE "count_full < 100")

\* C6: the reason is the three fragments joined in the order survival, total count,
\* full-followup count, each fragment decided by its own sub-condition alone, and the
\* status is ACCEPTED exactly when the three fragments are in their passing form.
C6_ReasonFragments ==
    Gated =>
        /\ rows[1].reason = ExpectedReason(metrics)
        /\ (rows[1].status = "ACCEPTED") <=>
               (rows[1].reason = "km_surv >= 0.6 & count_total >= 200 & count_full >= 100")

\* count_total one below its threshold, the other two metrics on theirs: only the
\* middle fragment is in its failing form
C6_Witness ==
    /\ Gated
    /\ metrics.km_surv = <<3, 5>>
    /\ metrics.count_total = 199
    /\ metrics.count_full_followup = 100
    /\ rows[1].reason = "km_surv >= 0.6 & count_total < 200 & count_full >= 100"
    /\ rows[1].status = "REJECTED"

----------------------------------------------------------------------------
(* Properties of generate_recommendation, under SpecRecommend *)

GridCells == {<<HORIZONS[a], WINDOWS[b]>> : a \in 1..Len(HORIZONS), b \in 1..Len(WINDOWS)}

\* C7: for a non-empty series there is exactly one row per (horizon, window) of the
\* grid, ordered by horizon and, for one horizon, by window.
C7_OneRowPerCellInOrder ==
    (pc = "done" /\ df # <<>>) =>
        /\ Len(rows) = Cardinality(GridCells)
        /\ \A c \in GridCells :
              Cardinality({k \in 1..Len(rows) :
                              rows[k].horizon_hours = c[1] /\ rows[k].W = c[2]}) = 1
        /\ \A k, l \in 1..Len(rows) :
              k < l =>
                  \/ rows[k].horizon_hours < rows[l].horizon_hours
                  \/ /\ rows[k].horizon_hours = rows[l].horizon_hours
                     /\ rows[k].W < rows[l].W

\* a full grid of rows over a series with an event in one cell and none in another
C7_Witness ==
    /\ pc = "done"
    /\ Len(df) = MaxLen
    /\ Len(rows) = 16
    /\ \E k, l \in 1..Len(rows) :
          /\ rows[k].km_surv[1] < rows[k].km_surv[2]
          /\ rows[l].km_surv[1] = rows[l].km_surv[2]
          /\ rows[k].count_full_followup > rows[l].count_full_followup

\* C8: for an empty series every cell is skipped: the result is the empty list, no
\* row of any status is emitted, and the walk ends normally.
C8_EmptySeriesNoRows ==
    /\ pc \in {"start", "done"}
    /\ (pc = "done" /\ df = <<>>) => rows = <<>>

\* the walk over the grid has ended on an empty series
C8_Witness ==
    /\ pc = "done"
    /\ df = <<>>
    /\ rows = <<>>

----------------------------------------------------------------------------
(* Properties of get_price_data, under SpecBuild *)

RemoteOps == {"find_block", "get_block", "get_reserves"}

\* the time grid of the run: start_ts, start_ts + interval, ... up to now
OnGrid(ts) ==
    /\ start_ts <= ts /\ ts <= now
    /\ (ts - start_ts) % SAMPLE_INTERVAL_SEC = 0

CachedTimestamps == {cached_df[i].timestamp : i \in 1..Len(cached_df)}

StrictlyIncreasing(s) ==
    \A i, j \in 1..Len(s) : i < j => s[i].timestamp < s[j].timestamp

\* C9: no block resolution and no price read is issued for a grid timestamp present in
\* the cached series loaded for the window; remote calls go to grid points absent from
\* that series only.
C9_NoRefetchOfCached ==
    \A k \in 1..Len(rpc_log) :
        rpc_log[k].op \in RemoteOps =>
            /\ rpc_log[k].ts \notin CachedTimestamps
            /\ OnGrid(rpc_log[k].ts)

\* a run over a grid of which one point was cached and skipped and another fetched
C9_Witness ==
    /\ bpc = "returned"
    /\ records # <<>>
    /\ \E ts \in CachedTimestamps : OnGrid(ts)
    /\ \E k \in 1..Len(rpc_log) : rpc_log[k].op = "get_reserves"
    /\ Len(result) = Len(cached_df) + Len(records)

\* C10: the series a run returns, and the series kept in the cache file, hold no two
\* rows of one timestamp and are in strictly increasing timestamp order, after any
\* sequence of runs against the cache key.
C10_MergedStrictlyOrdered ==
    /\ StrictlyIncreasing(cache)
    /\ bpc = "returned" => StrictlyIncreasing(result)

\* a second run whose merge put a newly fetched row before a cached one
C10_Witness ==
    /\ bpc = "returned"
    /\ builds >= 2
    /\ result = cache
    /\ \E i \in 1..Len(records), j \in 1..Len(cached_df) :
          records[i].timestamp < cached_df[j].timestamp
    /\ \E i \in 1..Len(records), j \in 1..Len(cached_df) :
          records[i].timestamp > cached_df[j].timestamp

----------------------------------------------------------------------------
(* Properties of the end of a build and of its failures, under SpecBuild *)

WalkDone == bpc \in {"returned", "failed"} /\ target_ts > now

Merged == merge_prices(cached_df, records)

Raised(k) == rpc_log[k].op = "raised"

\* the number of entries of the log, from position i to position j, whose op is in ops
RECURSIVE CountOps(_, _, _)
CountOps(ops, i, j) ==
    IF i > j THEN 0
    ELSE (IF rpc_log[j].op \in ops THEN 1 ELSE 0) + CountOps(ops, i, j - 1)

\* C11: when the merged series of a completed walk is empty, get_price_data raises
\* instead of returning, the cache file is not written, and main never starts the
\* tick and survival computation on an empty series.
C11_EmptyMergeRaises ==
    /\ (WalkDone /\ Merged = <<>>) =>
            /\ bpc = "failed"
            /\ result = <<>>
            /\ saved = <<>>
            /\ cache = cache_at_start
            /\ mpc # "computed"
    /\ mpc = "computed" => raw_df # <<>>

\* a second run, over a non-empty cache file whose rows are outside the window, in
\* which every read came back without reserves: the run ended with the error
C11_Witness ==
    /\ WalkDone
    /\ Merged = <<>>
    /\ builds >= 2
    /\ cache # <<>>
    /\ call_counter > 0
    /\ mpc = "error"

\* C12 as stated: a remote-call failure on a grid point does not fail the run.
C12_FailureSkipsPoint ==
    \A k \in 1..Len(rpc_log) : Raised(k) => bpc # "failed"

\* C12, amended: a remote call that raises during the walk ends get_price_data at that
\* grid point: it is the last thing the run did, no series is returned and nothing is
\* saved. Only a price read that returns no usable reserves counts as "no sample": the
\* point gets no record, and the walk goes on.
C12_FailurePropagates ==
    /\ \A k \in 1..Len(rpc_log) :
          Raised(k) =>
              /\ k = Len(rpc_log)
              /\ bpc = "failed"
              /\ target_ts = rpc_log[k].ts
              /\ result = <<>>
              /\ saved = <<>>
    /\ bpc \in {"walk", "returned"} =>
          /\ call_counter = CountOps({"get_reserves"}, 1, Len(rpc_log))
          /\ Len(records) <= call_counter
          /\ \A i \in 1..Len(records) :
                \E k \in 1..Len(rpc_log) :
                    /\ rpc_log[k].op = "get_reserves"
                    /\ rpc_log[k].ts = records[i].timestamp

\* a walk that took one sample, skipped a point whose read had no reserves, and then
\* ended on a remote call that raised
C12_Witness ==
    /\ bpc = "failed"
    /\ rpc_log # <<>>
    /\ Raised(Len(rpc_log))
    /\ records # <<>>
    /\ call_counter > Len(records)

\* positions of the pauses in the log, and the start of the stretch a pause closes
PauseAt == {k \in 1..Len(rpc_log) : rpc_log[k].op = "sleep"}

StretchStart(k) ==
    IF \E j \in PauseAt : j < k
    THEN (CHOOSE j \in PauseAt : j < k /\ \A m \in PauseAt : m < k => m <= j) + 1
    ELSE 1

RemoteCalls == {"get_block", "get_reserves"}

C19_CacheWrittenOnceAtEnd ==
    /\ Len(saved) <= 1
    /\ Len(saved) = 1 =>
          /\ bpc = "returned"
          /\ target_ts > now
          /\ saved[1] = Merged
          /\ saved[1] # <<>>
          /\ cache = saved[1]
          /\ result = saved[1]
    /\ bpc \in {"walk", "failed"} => cache = cache_at_start /\ saved = <<>>
    /\ saved = <<>> => cache = cache_at_start

\* a second run that rewrote a non-empty cache file with cached and new rows merged
C19_Witness ==
    /\ Len(saved) = 1
    /\ cache_at_start # <<>>
    /\ cache # cache_at_start
    /\ Len(cache) = Len(cached_df) + Len(records)
    /\ cached_df # <<>>
    /\ records # <<>>

----------------------------------------------------------------------------
(* Properties of rpc_call, under SpecRpc *)

Failed(k) == responses[k].kind # "ok"

RateLimited(k) == responses[k].kind = "http_error" /\ responses[k].status = 429

OtherStatus(k) == responses[k].kind = "http_error" /\ responses[k].status # 429

NotHttp(k) == responses[k].kind \in {"connection_error", "rpc_error", "bad_body"}

\* C13: rpc_call posts at most max_retries times whatever the provider answers, stops
\* at the first post that succeeds and returns its result, and raises instead of
\* returning when every post failed; while it is still trying it has posts left, so
\* it ends.
C13_BoundedAttempts ==
    /\ Len(responses) <= max_retries
    /\ \A k \in 1..(Len(responses) - 1) : Failed(k)
    /\ rpc_pc = "try" => attempt = Len(responses) + 1 /\ attempt <= max_retries
    /\ rpc_pc = "returned" =>
          /\ ~Failed(Len(responses))
          /\ rpc_result = [value |-> responses[Len(responses)].result]
          /\ raised = None
    /\ rpc_pc = "raised" =>
          /\ \A k \in 1..Len(responses) : Failed(k)
          /\ rpc_result = None
          /\ raised # None

\* a call that used all five attempts and raised
C13_Witness ==
    /\ rpc_pc = "raised"
    /\ max_retries = DEFAULT_MAX_RETRIES
    /\ Len(responses) = DEFAULT_MAX_RETRIES
    /\ Len(sleeps) = DEFAULT_MAX_RETRIES - 1

\* C14 as stated: whatever the failure, the call fails only once the maximum attempt
\* count is used up.
C14_FailsOnlyWhenExhausted ==
    rpc_pc = "raised" => Len(responses) = max_retries

\* C14, amended: a connection error, a JSON-RPC error body or a body without result is
\* retried after the same delay 1.5^(attempt-1) as a 429 answer, and the call then
\* fails with RuntimeError only when max_retries attempts are used up; an HTTP error
\* status other than 429 is never retried: it is re-raised at once, as is a 429 on the
\* last attempt.
C14_RetryByKind ==
    /\ \A k \in 1..Len(sleeps) :
          /\ sleeps[k] = <<pow(3, k - 1), pow(2, k - 1)>>
          /\ RateLimited(k) \/ NotHttp(k)
    /\ Len(sleeps) = (IF rpc_pc = "try" THEN Len(responses) ELSE Len(responses) - 1)
          \/ responses = <<>>
    /\ (rpc_pc = "raised" /\ responses # <<>>) =>
          LET n == Len(responses)
          IN \/ OtherStatus(n) /\ raised = [exc |-> "HTTPError"]
             \/ RateLimited(n) /\ n = max_retries /\ raised = [exc |-> "HTTPError"]
             \/ NotHttp(n) /\ n = max_retries /\ raised = [exc |-> "RuntimeError"]

\* a call of five attempts that slept after a connection error and after a 429, then
\* met a status 500 and raised with attempts left
C14_Witness ==
    /\ rpc_pc = "raised"
    /\ max_retries = DEFAULT_MAX_RETRIES
    /\ Len(responses) = 3
    /\ \E k \in 1..2 : NotHttp(k)
    /\ \E k \in 1..2 : RateLimited(k)
    /\ OtherStatus(3)
    /\ Len(sleeps) = 2

----------------------------------------------------------------------------
(* Properties of the block lookups, under SpecResolver *)

Missed(k) == Abs(trail[k].diff) > TOLERANCE

\* C15: a search looks up at most 10 blocks; what it returns is never negative; it
\* returns the first guess whose block is within 30 seconds of the target, so a return
\* before the 10th round is within tolerance; with no such guess it returns the guess
\* left by the 10th adjustment.
C15_BoundedSearch ==
    /\ Len(trail) <= ROUNDS
    /\ fpc = "loop" => Len(trail) < ROUNDS
    /\ \A k \in 1..(Len(trail) - 1) : Missed(k) /\ trail[k + 1].guess = trail[k].next
    /\ (fpc = "returned" /\ found # -1) =>
          LET n == Len(trail)
          IN /\ n >= 1
             /\ found >= 0
             /\ IF Missed(n)
                THEN n = ROUNDS /\ found = trail[n].next
                ELSE /\ found = trail[n].guess
                     /\ Abs(BlockTs(found) - f_target) <= TOLERANCE
             /\ n < ROUNDS => Abs(BlockTs(found) - f_target) <= TOLERANCE

\* a search that used its 10 rounds without meeting the tolerance and returned a block
\* further than 30 seconds from the target
C15_Witness ==
    /\ fpc = "returned"
    /\ Len(trail) = ROUNDS
    /\ Missed(ROUNDS)
    /\ found = trail[ROUNDS].next
    /\ found <= head
    /\ Abs(BlockTs(found) - f_target) > TOLERANCE

\* C16 as stated: every round outside the tolerance moves the guess by at least one
\* block, down when the block is later than the target, up when it is earlier.
C16_EveryRoundMoves ==
    \A k \in 1..Len(trail) :
        Missed(k) =>
            /\ trail[k].diff > 0 => trail[k].next <= trail[k].guess - 1
            /\ trail[k].diff < 0 => trail[k].next >= trail[k].guess + 1

\* C16, amended: a round outside the tolerance moves the guess up by at least one
\* block when the block is earlier than the target, and down by at least one block,
\* never below 0, when it is later and the guess is above 0; at guess 0 with block 0
\* later than the target the guess stays 0.
C16_MovesUnlessAtZero ==
    \A k \in 1..Len(trail) :
        Missed(k) =>
            /\ trail[k].next >= 0
            /\ trail[k].diff < 0 => trail[k].next >= trail[k].guess + 1
            /\ (trail[k].diff > 0 /\ trail[k].guess >= 1) =>
                  trail[k].next <= trail[k].guess - 1
            /\ (trail[k].diff > 0 /\ trail[k].guess = 0) => trail[k].next = 0

\* a search that moved down to block 0, found it later than the target and stayed
C16_Witness ==
    /\ \E k \in 1..Len(trail) :
          Missed(k) /\ trail[k].diff > 0 /\ trail[k].guess >= 1
              /\ trail[k].next < trail[k].guess
    /\ \E k \in 1..Len(trail) :
          Missed(k) /\ trail[k].diff > 0 /\ trail[k].guess = 0 /\ trail[k].next = 0

\* C17: in a run no block number is queried from the provider twice: a repeated
\* get_block of a number is answered from BLOCK_CACHE with the data of the first
\* answer; get_block("latest") queries the provider every time and is never cached.
C17_OneRemoteQueryPerNumber ==
    /\ \A i, j \in 1..Len(remote_log) :
          (i < j /\ remote_log[i] = remote_log[j]) => remote_log[i] = Latest
    /\ \A i, j \in 1..Len(lookup_log) :
          (i < j /\ lookup_log[i].number = lookup_log[j].number
                 /\ lookup_log[i].number # Latest) =>
              /\ ~lookup_log[j].remote
              /\ lookup_log[j].blk = lookup_log[i].blk
    /\ \A k \in 1..Len(lookup_log) :
          lookup_log[k].number = Latest => lookup_log[k].remote
    /\ Cardinality({k \in 1..Len(lookup_log) : lookup_log[k].remote})
          <= Len(remote_log)
    /\ \A n \in DOMAIN BLOCK_CACHE :
          \E k \in 1..Len(remote_log) : remote_log[k] = Number(n)

\* a run that asked for the latest block twice, the chain having grown in between, and
\* looked up one block number twice, the second time without a query
C17_Witness ==
    /\ \E i, j \in 1..Len(lookup_log) :
          /\ i < j
          /\ lookup_log[i].number = Latest /\ lookup_log[j].number = Latest
          /\ lookup_log[i].blk # lookup_log[j].blk
    /\ \E i, j \in 1..Len(lookup_log) :
          /\ i < j
          /\ lookup_log[i].number # Latest
          /\ lookup_log[i].number = lookup_log[j].number
          /\ lookup_log[i].remote /\ ~lookup_log[j].remote

----------------------------------------------------------------------------
(* Properties of the pushes, under SpecPush *)

FailedPushes == {k \in 1..Len(pushes) : pushes[k].outcome # "ok"}

Endpoints == [k \in 1..Len(pushes) |-> pushes[k].endpoint]

----------------------------------------------------------------------------
(* Properties of the entry points, under SpecConfig *)

\* the persistence endpoint the script posts to or reads from is not configured
EndpointAbsent ==
    IF script = "compute_survival_from_prices" THEN ~require_worker_base_ok(env)
    ELSE ~worker_base_known(env)

\* the pair identity the script itself insists on is not configured
PairIdentityAbsent ==
    CASE script = "ingest_orca_price" -> ~env.PAIR_LABEL \/ ~env.ADDRESS
      [] script = "compute_survival_from_prices" -> ~effective_pair_label_ok(env)
      [] OTHER -> FALSE

\* C21: in every entry point, a run whose pair identity or persistence endpoint is
\* absent issues no remote call at all, to the price source, the chain provider or
\* the Worker: it fails before.
C21_FailsBeforeAnyRemoteCall ==
    (script # "" /\ (PairIdentityAbsent \/ EndpointAbsent)) => calls = <<>>

(* Properties of the price read of one grid point *)

\* the read is valid: it decoded, and both reserves are strictly positive
ValidRead(reserves) == reserves # None /\ reserves[1] > 0 /\ reserves[2] > 0

RECURSIVE PositivePositions(_)
PositivePositions(n) ==
    IF n = 0 THEN <<>>
    ELSE IF price_rows[n].price.sign > 0 THEN Append(PositivePositions(n - 1), n)
    ELSE PositivePositions(n - 1)

\* C23: compute_ticks returns one row per input row with price > 0, in input order,
\* and none for a row with a non-positive price; each tick is the floor of
\* ln(price) / ln(1.0001), that is 1.0001^tick <= price < 1.0001^(tick + 1); the
\* tick of price 1.0 is 0; the tick does not decrease when the price increases.
C23_TicksOfPositiveRows ==
    tkpc = "done" =>
        LET at == PositivePositions(Len(price_rows))
        IN /\ Len(tick_rows) = Len(at)
           /\ \A k \in 1..Len(at) :
                 /\ tick_rows[k].timestamp = price_rows[at[k]].timestamp
                 /\ tick_rows[k].price = price_rows[at[k]].price
                 /\ LogGrain * tick_rows[k].tick <= tick_rows[k].price.log_q
                 /\ tick_rows[k].price.log_q < LogGrain * (tick_rows[k].tick + 1)
                 /\ tick_rows[k].price.log_q = 0 => tick_rows[k].tick = 0
           /\ \A k, l \in 1..Len(at) :
                 tick_rows[k].price.log_q <= tick_rows[l].price.log_q
                     => tick_rows[k].tick <= tick_rows[l].tick

\* a frame with a non-positive price between two positive ones, one of them below 1.0
\* and off the tick grid
C23_Witness ==
    /\ tkpc = "done"
    /\ Len(price_rows) = 3
    /\ price_rows[2].price.sign <= 0
    /\ Len(tick_rows) = 2
    /\ tick_rows[1].price.log_q = -1
    /\ tick_rows[2].price.log_q = 5

(* Properties of the price band, under SpecRecommend *)

\* the k-th smallest tick of df, by counting
KthTick(k) ==
    CHOOSE x \in {df[i].tick : i \in 1..Len(df)} :
        /\ Cardinality({i \in 1..Len(df) : df[i].tick < x}) < k
        /\ k <= Cardinality({i \in 1..Len(df) : df[i].tick <= x})

\* twice the median of the ticks of df
TwiceMedian ==
    IF Len(df) % 2 = 1 THEN 2 * KthTick((Len(df) + 1) \div 2)
    ELSE KthTick(Len(df) \div 2) + KthTick(Len(df) \div 2 + 1)

\* the band of a row is centred on c, with its prices and a positive width
BandAround(row, c) ==
    /\ row.tick_from = c - row.W
    /\ row.tick_to = c + row.W
    /\ row.price_from = power_1_0001(row.tick_from)
    /\ row.price_to = power_1_0001(row.tick_to)
    /\ row.W > 0 =>
          /\ sign_of_difference(row.price_to, row.price_from) > 0
          /\ row.percent_range_total > 0

\* C24 as stated: every cell of a run has its band centred on the median of all the
\* ticks of the series.
C24_CenterIsMedian ==
    pc = "done" =>
        \A k \in 1..Len(rows) :
            /\ 2 * (rows[k].tick_from + rows[k].W) = TwiceMedian
            /\ BandAround(rows[k], rows[k].tick_from + rows[k].W)

\* C24, amended: every cell of a run has tick_from = center_tick - W and
\* tick_to = center_tick + W for one center_tick, the median of all the ticks of the
\* series rounded toward zero to an integer (the median itself when it is whole);
\* price_from = 1.0001^tick_from, price_to = 1.0001^tick_to, and for W > 0
\* price_to > price_from and percent_range_total > 0.
C24_CenterIsMedianTowardZero ==
    pc = "done" =>
        \A k \in 1..Len(rows) :
            LET c == rows[k].tick_from + rows[k].W
            IN /\ IF TwiceMedian >= 0
                  THEN 2 * c <= TwiceMedian /\ TwiceMedian < 2 * c + 2
                  ELSE 2 * c - 2 < TwiceMedian /\ TwiceMedian <= 2 * c
               /\ BandAround(rows[k], c)
               /\ \A l \in 1..Len(rows) : rows[l].tick_from + rows[l].W = c

\* a run over two ticks whose mean, -50.5, is not a tick: every cell is centred on -50
C24_Witness ==
    /\ pc = "done"
    /\ Len(df) = 2
    /\ TwiceMedian = -101
    /\ Len(rows) = Len(HORIZONS) * Len(WINDOWS)
    /\ rows[1].tick_from = -50 - WINDOWS[1]

(* Properties of the Kaplan-Meier estimate, under SpecSurvival *)

\* the horizons the fitted estimate is read at, in hours
KmQueryHours == 0..3

\* the estimate of the samples of the run, read at horizon h
KmAt(h) == km_predict(durations, events, h)

\* C25: for the samples of one run, the Kaplan-Meier estimate read at a horizon
\* lies in [0, 1] and does not increase when the horizon increases, whether or not
\* the horizon is an observed time.
C25_KmNonIncreasingInHorizon ==
    (pc = "done" /\ df # <<>>) =>
        /\ \A h \in KmQueryHours :
              /\ KmAt(h)[2] > 0
              /\ 0 <= KmAt(h)[1]
              /\ KmAt(h)[1] <= KmAt(h)[2]
        /\ \A h1, h2 \in KmQueryHours :
              h1 <= h2 => KmAt(h2)[1] * KmAt(h1)[2] <= KmAt(h1)[1] * KmAt(h2)[2]

\* samples whose estimate steps down strictly inside (0, 1) between observed times and
\* is read at a horizon, 1 h, that no sample ended at
C25_Witness ==
    /\ pc = "done"
    /\ df # <<>>
    /\ \A i \in 1..Len(durations) : durations[i] # SecPerHour
    /\ 0 < KmAt(1)[1]
    /\ KmAt(1)[1] < KmAt(1)[2]
    /\ KmAt(2)[1] * KmAt(1)[2] < KmAt(1)[1] * KmAt(2)[2]

(* Properties of the samples, under SpecSurvival *)

\* C28: every sample of compute_survival has 0 <= duration <= H; the sample started
\* at the last index is censored (event 0) with duration 0; full follow-up is monotone
\* in the index: if index i has it, so has every earlier index.
C28_DurationsWithinHorizon ==
    (pc = "done" /\ df # <<>>) =>
        /\ Len(durations) = Len(df)
        /\ \A i \in 1..Len(df) :
              /\ 0 <= durations[i]
              /\ durations[i] <= horizon_delta(horizon_hours)
        /\ events[Len(df)] = 0
        /\ durations[Len(df)] = 0
        /\ \A i, k \in 1..Len(df) : (k < i /\ full_followup[i]) => full_followup[k]

\* a series whose first sample is followed up in full and whose later ones are not
C28_Witness ==
    /\ pc = "done"
    /\ Len(df) = 3
    /\ full_followup[1]
    /\ ~full_followup[2]
    /\ durations[2] > 0
    /\ durations[2] < horizon_delta(horizon_hours)
    /\ events[2] = 0

(* Properties of the follow-up gate, under SpecRecommend *)

\* the start points of df that lie at least h hours before its last point
EarlyStarts(h) ==
    {i \in 1..Len(df) : df[i].timestamp + horizon_delta(h) <= df[Len(df)].timestamp}

BothEnded == \A p \in Runs : rpos[p] \in {"returned", "failed"}

\* C26: when two uncoordinated runs against one cache key have both finished, the
\* cache file is exactly the merged series written by the run that wrote last: it
\* holds no point that only the other run had, and no interleaving leaves a file
\* that mixes partial writes of the two runs.
C26_LastWriterWins ==
    (BothEnded /\ writes # <<>>) =>
        disk = units_of(rsaved[writes[Len(writes)]], writes[Len(writes)])

(* Properties of survival_km_v3.get_price_data, under SpecBuildV3 *)

SamePrice(p, q) == p[1] * q[2] = q[1] * p[2]

Walked == v3_pos # "idle" /\ v3_first_ts # 0

\* C30: when the Worker reported a last_ts earlier than the latest block time, the
\* walk starts at max(now - lookback, last_ts + sample_interval), no block is resolved
\* and no price is read for a timestamp at or before last_ts, and the cache is loaded
\* for the window [now - lookback, now].
C30_WalkStartsAfterLastTs ==
    (Walked /\ v3_last_ts # None /\ v3_last_ts.sec < v3_now) =>
        /\ v3_first_ts = Max(v3_now - LOOKBACK_HOURS * SecPerHour,
                             v3_last_ts.sec + SAMPLE_INTERVAL_SEC)
        /\ \A k \in 1..Len(v3_log) :
              v3_log[k].op # "sleep" => v3_log[k].ts > v3_last_ts.sec
        /\ v3_start_ts = v3_now - LOOKBACK_HOURS * SecPerHour
        /\ \A k \in 1..Len(v3_cached_df) :
              /\ v3_cached_df[k].timestamp >= v3_now - LOOKBACK_HOURS * SecPerHour
              /\ v3_cached_df[k].timestamp <= v3_now

\* a build told last_ts = 3600 with the window starting there and no cached row at
\* 3600: it fetched later points and returned without a row at 3600
C30_Witness ==
    /\ v3_pos = "returned"
    /\ v3_last_ts # None
    /\ v3_last_ts.sec = 3600
    /\ v3_now = 7200
    /\ 3600 \notin existing_ts_of(v3_cached_df)
    /\ v3_records # <<>>
    /\ \A k \in 1..Len(v3_result) : v3_result[k].timestamp > 3600

====
